---- MODULE Spec2Model ----
(***************************************************************************)
(* A model of baur's run registry write path (pkg/storage/postgres), of    *)
(* the Landlock sandbox driver and of the sandboxed task runner.           *)
(*                                                                         *)
(* Strings are TLA+ strings; their byte-wise order (strings.Compare, <)    *)
(* is given by Ord.  Timestamps are small naturals.  PostgreSQL is the     *)
(* environment: a row touched by INSERT .. ON CONFLICT .. DO UPDATE is     *)
(* locked by the transaction until it commits or rolls back, a second      *)
(* transaction that needs the row waits, and a cycle of waits is broken by *)
(* the server aborting one of the waiters.  The ids a table's sequence     *)
(* hands out are unique tokens: FreshID gives transaction t the ids        *)
(* t, t + NumTx, t + 2 * NumTx, ...; their numeric order means nothing.    *)
(***************************************************************************)
EXTENDS Integers, Sequences, FiniteSets, TLC

VARIABLES
    pc,       \* registry: position of each SaveTaskRun call
    req,      \* registry: the *storage.TaskRunFull each call was given
    loc,      \* registry: local variables of saveTaskRun and its callees
    stmt,     \* registry: rows still to be processed by the running INSERT, ids returned so far
    held,     \* registry: unique-constraint row locks held by each transaction
    pend,     \* registry: rows written by each open transaction
    db,       \* registry: committed rows
    res,      \* registry: (id, error) returned by each SaveTaskRun call
    st,       \* status command: the task last evaluated and the row written for it
    proc,     \* processes: Exec position, ruleset, Landlock domain, image of each
    run,      \* task runner: the RunSandboxed call in progress and what it returned
    tmp,      \* task runner: the task-info temp files that exist
    acc,      \* kernel: the filesystem access attempted in the last step, if any
    ll        \* landlock: the kernel Version was last called on and what it returned

dbvars == <<pc, req, loc, stmt, held, pend, db, res>>

sbvars == <<proc, run, tmp, acc, ll>>

nondb == <<st, proc, run, tmp, acc, ll>>

vars == <<pc, req, loc, stmt, held, pend, db, res, st, proc, run, tmp, acc, ll>>

-----------------------------------------------------------------------------
(* Bounds *)

NumTx == 2
MaxInputs == 2
MaxItems == 2
MaxRuns == 2

Tx == 1..NumTx

-----------------------------------------------------------------------------
(* Strings and their order *)

Ord ==
    [s \in {"CC", "GOOS", "a.c", "app.check", "app.lint", "b.c",
            "d1", "d2", "dx", "dy", "x", "y"} |->
        CASE s = "CC" -> 1 [] s = "GOOS" -> 2 [] s = "a.c" -> 3
          [] s = "app.check" -> 4 [] s = "app.lint" -> 5 [] s = "b.c" -> 6
          [] s = "d1" -> 7 [] s = "d2" -> 8 [] s = "dx" -> 9 [] s = "dy" -> 10
          [] s = "x" -> 11 [] s = "y" -> 12]

Compare(a, b) == IF Ord[a] < Ord[b] THEN -1 ELSE IF Ord[a] > Ord[b] THEN 1 ELSE 0

\* An input is the pair <<primary attribute, digest>>:
\* InputFile{Path, Digest}, InputString{String, Digest},
\* InputEnvVar{Name, Digest}, InputTaskInfo{Name, Digest}.
LessInput(a, b) ==
    \/ Compare(a[1], b[1]) = -1
    \/ Compare(a[1], b[1]) = 0 /\ Compare(a[2], b[2]) = -1

RECURSIVE InsertSorted(_, _)
InsertSorted(x, s) ==
    IF s = <<>> THEN <<x>>
    ELSE IF LessInput(x, Head(s)) THEN <<x>> \o s
    ELSE <<Head(s)>> \o InsertSorted(x, Tail(s))

RECURSIVE SortInputs(_)
SortInputs(s) == IF s = <<>> THEN <<>> ELSE InsertSorted(Head(s), SortInputs(Tail(s)))

\* Faulty variant: the copy is returned without being sorted.
clonedSortedInputfiles_unsorted(inputs) == inputs

clonedSortedInputfiles(inputs) == SortInputs(inputs)

clonedSortedInputStrings(inputs) == SortInputs(inputs)

clonedSortedInputTasks(result) == SortInputs(result)

clonedSortedInputEnvVars(inputs) == SortInputs(inputs)

-----------------------------------------------------------------------------
(* The payloads *)

FilePool == {<<"a.c", "d1">>, <<"a.c", "d2">>, <<"b.c", "d1">>}
StringPool == {<<"x", "dx">>, <<"y", "dy">>}
EnvVarPool == {<<"CC", "d1">>, <<"GOOS", "d2">>}
TaskInfoPool == {<<"app.check", "d1">>, <<"app.lint", "d1">>}
Apps == {"app1", "app2"}
Revisions == {"r1", "r2"}

\* Concurrent builds of different applications at different revisions, as CI
\* jobs sharing one registry produce them: <<application, revision>>.
Builds == {<<"app1", "r1">>, <<"app2", "r2">>}

Lists(S, n) ==
    {s \in UNION {[1..m -> S] : m \in 0..n} :
        \A i, j \in DOMAIN s : i # j => s[i] # s[j]}

InputsUpTo(n) ==
    {in \in [Strings : Lists(StringPool, n), Files : Lists(FilePool, n),
             EnvironmentVariables : Lists(EnvVarPool, n), TaskInfo : Lists(TaskInfoPool, n)] :
        Len(in.Strings) + Len(in.Files) + Len(in.EnvironmentVariables) + Len(in.TaskInfo) <= n}

\* Task runs that differ in their inputs only: no outputs.
InputRuns ==
    {[ApplicationName |-> b[1], TaskName |-> "build", VCSRevision |-> b[2], VCSIsDirty |-> FALSE,
      TotalInputDigest |-> "t1", StopTimestamp |-> 1, Result |-> "success",
      Inputs |-> in, Outputs |-> <<>>] :
        b \in Builds, in \in InputsUpTo(MaxInputs)}

Upload1 == <<[URI |-> "s3://bucket/bin", Method |-> "s3"]>>

\* Two outputs with one upload each, and one that was not uploaded.
OutputPool ==
    {[Name |-> "bin", Type |-> "file", Digest |-> "d1", SizeBytes |-> 10, Uploads |-> Upload1],
     [Name |-> "img", Type |-> "docker", Digest |-> "d2", SizeBytes |-> 20, Uploads |-> Upload1],
     [Name |-> "doc", Type |-> "file", Digest |-> "d1", SizeBytes |-> 10, Uploads |-> <<>>]}

\* Task runs with inputs, outputs and uploads: at most MaxItems of them.
Runs ==
    {[ApplicationName |-> b[1], TaskName |-> "build", VCSRevision |-> b[2], VCSIsDirty |-> FALSE,
      TotalInputDigest |-> "t1", StopTimestamp |-> 1, Result |-> "success",
      Inputs |-> io[1], Outputs |-> io[2]] :
        b \in Builds,
        io \in {x \in InputsUpTo(MaxItems - 1) \X Lists(OutputPool, MaxItems) :
                  Len(x[1].Strings) + Len(x[1].Files) + Len(x[1].EnvironmentVariables)
                    + Len(x[1].TaskInfo) + Len(x[2]) <= MaxItems}}

NoRun ==
    [ApplicationName |-> "", TaskName |-> "", VCSRevision |-> "", VCSIsDirty |-> FALSE,
     TotalInputDigest |-> "", StopTimestamp |-> 0, Result |-> "",
     Inputs |-> [Strings |-> <<>>, Files |-> <<>>, EnvironmentVariables |-> <<>>, TaskInfo |-> <<>>],
     Outputs |-> <<>>]

-----------------------------------------------------------------------------
(* Tables, rows and unique constraints *)

\* A row is [tbl, k, r, id]: k its text columns, r its integer columns.

InputTable(j) == <<"input_string", "input_file", "input_env_var", "input_task">>[j]

JunctionTable(j) ==
    <<"task_run_string_input", "task_run_file_input",
      "task_run_env_var_input", "task_run_task_input">>[j]

InputList(tr, j) ==
    CASE j = 1 -> tr.Inputs.Strings
      [] j = 2 -> tr.Inputs.Files
      [] j = 3 -> tr.Inputs.EnvironmentVariables
      [] j = 4 -> tr.Inputs.TaskInfo

SortedInputList(tr, j) ==
    CASE j = 1 -> clonedSortedInputStrings(tr.Inputs.Strings)
      [] j = 2 -> clonedSortedInputfiles(tr.Inputs.Files)
      [] j = 3 -> clonedSortedInputEnvVars(tr.Inputs.EnvironmentVariables)
      [] j = 4 -> clonedSortedInputTasks(tr.Inputs.TaskInfo)

\* Faulty variant: input_file's constraint covers the path alone.
UKeyOf_pathonly(tbl, k, r) ==
    IF tbl \in {"input_string", "input_file"}
    THEN [tbl |-> tbl, k |-> <<k[IF tbl = "input_file" THEN 1 ELSE 2]>>, r |-> <<>>]
    ELSE [tbl |-> tbl, k |-> k, r |-> r]

\* The columns of the unique constraint named in each ON CONFLICT clause.
UKeyOf(tbl, k, r) ==
    IF tbl = "input_string" THEN [tbl |-> tbl, k |-> <<k[2]>>, r |-> <<>>]
    ELSE [tbl |-> tbl, k |-> k, r |-> r]

RowKey(row) == UKeyOf(row.tbl, row.k, row.r)

NoKey == [tbl |-> "", k |-> <<>>, r |-> <<>>]

BoolStr(b) == IF b THEN "true" ELSE "false"

Range(s) == {s[i] : i \in DOMAIN s}

SetMin(S) == CHOOSE x \in S : \A y \in S : x <= y

-----------------------------------------------------------------------------
(* SaveTaskRun: one transaction per call *)

NoLoc ==
    [vcsID |-> 0, appID |-> 0, taskID |-> 0, runID |-> 0,
     phase |-> 0, oi |-> 0, outputID |-> 0, recs |-> <<>>]

NoStmt == [rows |-> <<>>, ids |-> <<>>]

InitDB ==
    /\ pc = [t \in Tx |-> "idle"]
    /\ req = [t \in Tx |-> NoRun]
    /\ loc = [t \in Tx |-> NoLoc]
    /\ stmt = [t \in Tx |-> NoStmt]
    /\ held = [t \in Tx |-> {}]
    /\ pend = [t \in Tx |-> {}]
    /\ db = {}
    /\ res = [t \in Tx |-> [id |-> 0, err |-> ""]]

NoStatus ==
    [task |-> "", digest |-> "", lookup |-> "", alt |-> "", hasInputs |-> FALSE,
     status |-> "", runID |-> 0, row |-> <<>>]

InitStatus == st = NoStatus

\* Process ids: the baur process that runs tasks, the children it spawns, and
\* a baur process running the shell command.
Runner == 0
Children == 1..MaxRuns
Shell == MaxRuns + 1
Procs == Runner..Shell

NoCmd == [Name |-> "", Args |-> <<>>, Dir |-> "", Env |-> <<>>, AllowedFSAccessPaths |-> <<>>]
NoRuleset == [created |-> FALSE, handled |-> {}, rules |-> {}]
NoErr == [step |-> "", cause |-> "nil"]

NoProc ==
    [pc |-> "none", stdin |-> <<>>, cmd |-> NoCmd, i |-> 0, rs |-> NoRuleset,
     dom |-> <<>>, nnp |-> FALSE, cwd |-> "", image |-> "", argv |-> <<>>,
     envp |-> <<>>, calls |-> <<>>, err |-> NoErr, code |-> -1, restricts |-> 0]

Environ == <<"PATH=/usr/bin">>

NoTask == [ID |-> "", Command |-> <<>>, Directory |-> "", RepositoryRoot |-> ""]
NoQuery == [called |-> FALSE, err |-> "nil", files |-> <<>>]
NoRet == [result |-> -1, err |-> "", untracked |-> <<>>]

NoCall ==
    [pc |-> "idle", n |-> 0, task |-> NoTask, inputs |-> <<>>,
     skipAfterError |-> FALSE, skipRuns |-> FALSE, fnSet |-> FALSE,
     queried |-> NoQuery, env |-> <<>>, files |-> {}, deletes |-> 0, ret |-> NoRet]

NoAcc == [p |-> -1, op |-> "", target |-> <<>>, restricted |-> FALSE, ok |-> FALSE]

NoVersion == [called |-> FALSE, kernel |-> "", version |-> 0, err |-> ""]

InitSandbox ==
    /\ proc = [p \in Procs |->
                 IF p = Runner
                 THEN [NoProc EXCEPT !.pc = "main", !.cwd = "/repo", !.image = "baur",
                                     !.argv = <<"baur", "run">>, !.envp = Environ]
                 ELSE NoProc]
    /\ run = NoCall
    /\ tmp = {}
    /\ acc = NoAcc
    /\ ll = NoVersion

Init == InitDB /\ InitStatus /\ InitSandbox

Active(t) == pc[t] \notin {"idle", "done", "failed"}

\* Rows written through the pgx.Tx handed to saveTaskRun stay private to the
\* transaction until BeginFunc commits.
PendAfter(t, rows) == [pend EXCEPT ![t] = @ \cup rows]

\* Faulty variant: the statement runs on the pool connection instead of the tx.
DbAfter_autocommit(t, rows) == db \cup rows

DbAfter(t, rows) == db

\* BeginFunc commits when the closure returns nil ...
CommitTx(t) ==
    /\ db' = db \cup pend[t]
    /\ pend' = [pend EXCEPT ![t] = {}]
    /\ held' = [held EXCEPT ![t] = {}]

\* ... and rolls back when it returns an error.
RollbackTx(t) ==
    /\ db' = db
    /\ pend' = [pend EXCEPT ![t] = {}]
    /\ held' = [held EXCEPT ![t] = {}]

LockFree(t, key) == \A u \in Tx \ {t} : key \notin held[u]

\* The n-th next value of tbl's id sequence as seen by transaction t.
FreshID(t, tbl, n) == t + NumTx * (Cardinality({row \in pend[t] : row.tbl = tbl}) + n)

\* INSERT .. ON CONFLICT ON CONSTRAINT c DO UPDATE SET id=tbl.id RETURNING id
Existing(t, tbl, k, r) ==
    {row \in db \cup pend[t] : row.tbl = tbl /\ RowKey(row) = UKeyOf(tbl, k, r)}

UpsertID(t, tbl, k, r) ==
    IF Existing(t, tbl, k, r) # {}
    THEN (CHOOSE row \in Existing(t, tbl, k, r) : TRUE).id
    ELSE FreshID(t, tbl, 0)

UpsertRows(t, tbl, k, r) ==
    IF Existing(t, tbl, k, r) # {} THEN {}
    ELSE {[tbl |-> tbl, k |-> k, r |-> r, id |-> FreshID(t, tbl, 0)]}

DoUpsert(t, tbl, k, r) ==
    /\ LockFree(t, UKeyOf(tbl, k, r))
    /\ pend' = PendAfter(t, UpsertRows(t, tbl, k, r))
    /\ db' = DbAfter(t, UpsertRows(t, tbl, k, r))
    /\ held' = [held EXCEPT ![t] = @ \cup {UKeyOf(tbl, k, r)}]

\* A plain INSERT of rows without a unique constraint.
DoInsert(t, rows) ==
    /\ pend' = PendAfter(t, rows)
    /\ db' = DbAfter(t, rows)
    /\ held' = held

\* The statement after input kind i (0: after the task_run row): the next
\* non-empty input list, sorted, else the outputs, else the commit.
NextPhase(tr, i) ==
    IF {j \in (i + 1)..4 : InputList(tr, j) # <<>>} = {} THEN 5
    ELSE SetMin({j \in (i + 1)..4 : InputList(tr, j) # <<>>})

WithList(in, j, l) ==
    CASE j = 1 -> [in EXCEPT !.Strings = l]
      [] j = 2 -> [in EXCEPT !.Files = l]
      [] j = 3 -> [in EXCEPT !.EnvironmentVariables = l]
      [] j = 4 -> [in EXCEPT !.TaskInfo = l]

\* Faulty variant: the caller's slice itself is sorted.
SliceAfterSort_inplace(inputs) == SortInputs(inputs)

\* The caller's slice once clonedSorted* has run: append([]*T{}, inputs...)
\* and slices.Clone give the sort a backing array of its own.
SliceAfterSort(inputs) == inputs

GoPhase(t, i, l) ==
    LET j == NextPhase(req[t], i) IN
    /\ req' = [req EXCEPT ![t].Inputs =
                 IF j <= 4 THEN WithList(@, j, SliceAfterSort(InputList(req[t], j))) ELSE @]
    /\ pc' = [pc EXCEPT ![t] =
                IF j <= 4 THEN "in"
                ELSE IF req[t].Outputs = <<>> THEN "commit" ELSE "output"]
    /\ loc' = [loc EXCEPT ![t] = [l EXCEPT !.phase = j, !.oi = 1]]
    /\ stmt' = [stmt EXCEPT ![t] =
                  [rows |-> IF j <= 4 THEN SortedInputList(req[t], j) ELSE <<>>,
                   ids |-> <<>>]]

BeginWith(t, runs) ==
    /\ pc[t] = "idle"
    /\ \E tr \in runs : req' = [req EXCEPT ![t] = tr]
    /\ pc' = [pc EXCEPT ![t] = "vcs"]
    /\ UNCHANGED <<loc, stmt, held, pend, db, res>>
    /\ UNCHANGED nondb

insertVCSIfNotExist(t) ==
    /\ pc[t] = "vcs"
    /\ DoUpsert(t, "vcs", <<req[t].VCSRevision, BoolStr(req[t].VCSIsDirty)>>, <<>>)
    /\ loc' = [loc EXCEPT ![t].vcsID =
                 UpsertID(t, "vcs", <<req[t].VCSRevision, BoolStr(req[t].VCSIsDirty)>>, <<>>)]
    /\ pc' = [pc EXCEPT ![t] = "app"]
    /\ UNCHANGED <<req, stmt, res>>
    /\ UNCHANGED nondb

insertAppIfNotExist(t) ==
    /\ pc[t] = "app"
    /\ DoUpsert(t, "application", <<req[t].ApplicationName>>, <<>>)
    /\ loc' = [loc EXCEPT ![t].appID =
                 UpsertID(t, "application", <<req[t].ApplicationName>>, <<>>)]
    /\ pc' = [pc EXCEPT ![t] = "task"]
    /\ UNCHANGED <<req, stmt, res>>
    /\ UNCHANGED nondb

insertTaskIfNotExist(t) ==
    /\ pc[t] = "task"
    /\ DoUpsert(t, "task", <<req[t].TaskName>>, <<loc[t].appID>>)
    /\ loc' = [loc EXCEPT ![t].taskID =
                 UpsertID(t, "task", <<req[t].TaskName>>, <<loc[t].appID>>)]
    /\ pc' = [pc EXCEPT ![t] = "run"]
    /\ UNCHANGED <<req, stmt, res>>
    /\ UNCHANGED nondb

\* Faulty variant: the result column is not taken from the run.
TaskRunRow_anyResult(t, id) ==
    [tbl |-> "task_run",
     k |-> <<req[t].TotalInputDigest, "success">>,
     r |-> <<loc[t].vcsID, loc[t].taskID, req[t].StopTimestamp>>,
     id |-> id]

\* The columns of the task_run row saveTaskRun inserts.
TaskRunRow(t, id) ==
    [tbl |-> "task_run",
     k |-> <<req[t].TotalInputDigest, req[t].Result>>,
     r |-> <<loc[t].vcsID, loc[t].taskID, req[t].StopTimestamp>>,
     id |-> id]

\* Faulty variant: the run id is taken but the row is not written yet.
insertTaskRun_deferred(t) ==
    /\ pc[t] = "run"
    /\ DoInsert(t, {})
    /\ GoPhase(t, 0, [loc[t] EXCEPT !.runID = FreshID(t, "task_run", 0)])
    /\ UNCHANGED res
    /\ UNCHANGED nondb

\* Faulty variant: a run with the columns of a stored run is not stored again.
insertTaskRun_interned(t) ==
    /\ pc[t] = "run"
    /\ DoUpsert(t, "task_run", TaskRunRow(t, 0).k, TaskRunRow(t, 0).r)
    /\ GoPhase(t, 0, [loc[t] EXCEPT !.runID =
                        UpsertID(t, "task_run", TaskRunRow(t, 0).k, TaskRunRow(t, 0).r)])
    /\ UNCHANGED res
    /\ UNCHANGED nondb

insertTaskRun(t) ==
    /\ pc[t] = "run"
    /\ DoInsert(t, {TaskRunRow(t, FreshID(t, "task_run", 0))})
    /\ GoPhase(t, 0, [loc[t] EXCEPT !.runID = FreshID(t, "task_run", 0)])
    /\ UNCHANGED res
    /\ UNCHANGED nondb

\* One row of the multi-row INSERT of insertInput*IfNotExist, in VALUES order.
insertInputIfNotExist(t) ==
    /\ pc[t] = "in"
    /\ stmt[t].rows # <<>>
    /\ DoUpsert(t, InputTable(loc[t].phase), Head(stmt[t].rows), <<>>)
    /\ stmt' = [stmt EXCEPT ![t] =
                  [rows |-> Tail(stmt[t].rows),
                   ids |-> Append(stmt[t].ids,
                              UpsertID(t, InputTable(loc[t].phase), Head(stmt[t].rows), <<>>))]]
    /\ UNCHANGED <<pc, req, loc, res>>
    /\ UNCHANGED nondb

\* Faulty variant: every junction row carries the id returned first.
JunctionRows_firstID(t) ==
    {[tbl |-> JunctionTable(loc[t].phase), k |-> <<>>,
      r |-> <<loc[t].runID, stmt[t].ids[1]>>, id |-> i] : i \in DOMAIN stmt[t].ids}

\* The junction rows (task_run_id, input_id) of insertTaskRunInput*IfNotExist.
JunctionRows(t) ==
    {[tbl |-> JunctionTable(loc[t].phase), k |-> <<>>,
      r |-> <<loc[t].runID, stmt[t].ids[i]>>, id |-> i] : i \in DOMAIN stmt[t].ids}

insertTaskRunInputs(t) ==
    /\ pc[t] = "in"
    /\ stmt[t].rows = <<>>
    /\ DoInsert(t, JunctionRows(t))
    /\ GoPhase(t, loc[t].phase, loc[t])
    /\ UNCHANGED res
    /\ UNCHANGED nondb

CurOutput(t) == req[t].Outputs[loc[t].oi]

insertOutputIfNotExist(t) ==
    /\ pc[t] = "output"
    /\ DoUpsert(t, "output",
                <<CurOutput(t).Name, CurOutput(t).Type, CurOutput(t).Digest>>,
                <<CurOutput(t).SizeBytes>>)
    /\ loc' = [loc EXCEPT ![t].outputID =
                 UpsertID(t, "output",
                          <<CurOutput(t).Name, CurOutput(t).Type, CurOutput(t).Digest>>,
                          <<CurOutput(t).SizeBytes>>)]
    /\ pc' = [pc EXCEPT ![t] = "uploads"]
    /\ UNCHANGED <<req, stmt, res>>
    /\ UNCHANGED nondb

UploadRows(t) ==
    {[tbl |-> "upload",
      k |-> <<CurOutput(t).Uploads[i].URI, CurOutput(t).Uploads[i].Method>>,
      r |-> <<>>, id |-> FreshID(t, "upload", i - 1)] : i \in DOMAIN CurOutput(t).Uploads}

\* INSERT into upload .. VALUES (..), (..) RETURNING id, and the records loop.
insertUploads(t) ==
    /\ pc[t] = "uploads"
    /\ CurOutput(t).Uploads # <<>>
    /\ DoInsert(t, UploadRows(t))
    /\ loc' = [loc EXCEPT
                 ![t].recs = @ \o [i \in DOMAIN CurOutput(t).Uploads |->
                                     <<loc[t].outputID, FreshID(t, "upload", i - 1)>>],
                 ![t].oi = IF @ < Len(req[t].Outputs) THEN @ + 1 ELSE @]
    /\ pc' = [pc EXCEPT ![t] = IF loc[t].oi < Len(req[t].Outputs) THEN "output" ELSE "tro"]
    /\ UNCHANGED <<req, stmt, res>>
    /\ UNCHANGED nondb

TaskRunOutputRows(t) ==
    {[tbl |-> "task_run_output", k |-> <<>>,
      r |-> <<loc[t].runID, loc[t].recs[i][1], loc[t].recs[i][2]>>, id |-> i] :
        i \in DOMAIN loc[t].recs}

insertTaskRunOutputs(t) ==
    /\ pc[t] = "tro"
    /\ DoInsert(t, TaskRunOutputRows(t))
    /\ pc' = [pc EXCEPT ![t] = "commit"]
    /\ UNCHANGED <<req, loc, stmt, res>>
    /\ UNCHANGED nondb

\* SaveTaskRun returns the error, and with it the id the closure assigned last:
\* -1 from a failed saveTaskRun, the new task_run id when it is the commit
\* that failed.
Abort(t) ==
    /\ RollbackTx(t)
    /\ res' = [res EXCEPT ![t] =
                 [id |-> IF pc[t] = "commit" THEN loc[t].runID ELSE -1,
                  err |-> "error"]]
    /\ pc' = [pc EXCEPT ![t] = "failed"]
    /\ loc' = [loc EXCEPT ![t] = NoLoc]
    /\ stmt' = [stmt EXCEPT ![t] = NoStmt]
    /\ UNCHANGED req
    /\ UNCHANGED nondb

\* Any statement, and the commit, can fail (connection lost, server error).
Fail(t) ==
    /\ Active(t)
    /\ Abort(t)

\* With no upload the statement reads "VALUES RETURNING id": a syntax error.
insertUploadsEmpty(t) ==
    /\ pc[t] = "uploads"
    /\ CurOutput(t).Uploads = <<>>
    /\ Abort(t)

Commit(t) ==
    /\ pc[t] = "commit"
    /\ CommitTx(t)
    /\ pc' = [pc EXCEPT ![t] = "done"]
    /\ res' = [res EXCEPT ![t] = [id |-> loc[t].runID, err |-> "nil"]]
    /\ loc' = [loc EXCEPT ![t] = NoLoc]
    /\ stmt' = [stmt EXCEPT ![t] = NoStmt]
    /\ UNCHANGED req
    /\ UNCHANGED nondb

-----------------------------------------------------------------------------
(* Waiting for row locks *)

\* The unique key the next statement of t has to lock.
WantKey(t) ==
    CASE pc[t] = "vcs" ->
            UKeyOf("vcs", <<req[t].VCSRevision, BoolStr(req[t].VCSIsDirty)>>, <<>>)
      [] pc[t] = "app" -> UKeyOf("application", <<req[t].ApplicationName>>, <<>>)
      [] pc[t] = "task" -> UKeyOf("task", <<req[t].TaskName>>, <<loc[t].appID>>)
      [] pc[t] = "in" /\ stmt[t].rows # <<>> ->
            UKeyOf(InputTable(loc[t].phase), Head(stmt[t].rows), <<>>)
      [] pc[t] = "output" ->
            UKeyOf("output",
                   <<CurOutput(t).Name, CurOutput(t).Type, CurOutput(t).Digest>>,
                   <<CurOutput(t).SizeBytes>>)
      [] OTHER -> NoKey

WaitsFor(t, u) == t # u /\ WantKey(t) # NoKey /\ WantKey(t) \in held[u]

Blocked(t) == \E u \in Tx : WaitsFor(t, u)

Succ(S) == {u \in Tx : \E s \in S : WaitsFor(s, u)}

RECURSIVE Closure(_, _)
Closure(S, n) == IF n = 0 THEN S ELSE Closure(S \cup Succ(S), n - 1)

InCycle(t) == t \in Closure(Succ({t}), NumTx)

\* The server's deadlock detector aborts a transaction that waits in a cycle.
DeadlockAbort(t) ==
    /\ InCycle(t)
    /\ Abort(t)

-----------------------------------------------------------------------------
(* Concurrent SaveTaskRun calls over overlapping inputs *)

BeginInputs(t) == BeginWith(t, InputRuns)

NextInputs ==
    \E t \in Tx :
        \/ BeginInputs(t)
        \/ insertVCSIfNotExist(t)
        \/ insertAppIfNotExist(t)
        \/ insertTaskIfNotExist(t)
        \/ insertTaskRun(t)
        \/ insertInputIfNotExist(t)
        \/ insertTaskRunInputs(t)
        \/ Commit(t)

SpecInputs == Init /\ [][NextInputs]_vars

-----------------------------------------------------------------------------
(* Concurrent SaveTaskRun calls with inputs, outputs and failures *)

BeginRun(t) == BeginWith(t, Runs)

NextDB ==
    \E t \in Tx :
        \/ BeginRun(t)
        \/ insertVCSIfNotExist(t)
        \/ insertAppIfNotExist(t)
        \/ insertTaskIfNotExist(t)
        \/ insertTaskRun(t)
        \/ insertInputIfNotExist(t)
        \/ insertTaskRunInputs(t)
        \/ insertOutputIfNotExist(t)
        \/ insertUploads(t)
        \/ insertUploadsEmpty(t)
        \/ insertTaskRunOutputs(t)
        \/ Commit(t)
        \/ Fail(t)
        \/ DeadlockAbort(t)

SpecDB == Init /\ [][NextDB]_vars

-----------------------------------------------------------------------------
(* Claims *)

Done(t) == pc[t] = "done"

\* The inputs of kind j that the committed calls were given.
CommittedInputs(j) == UNION {Range(InputList(req[t], j)) : t \in {u \in Tx : Done(u)}}

InputRowsOf(j) == {row \in db : row.tbl = InputTable(j)}

\* C1: concurrent SaveTaskRun transactions over overlapping input lists given
\* in any orders never wait for each other in a cycle, some started
\* transaction can always take its next step (so each one reaches its commit),
\* and the committed calls leave each distinct input stored exactly once.
C1_SortedInsertsNeverDeadlock ==
    /\ \A t \in Tx : ~InCycle(t)
    /\ (\E t \in Tx : Active(t)) => (\E t \in Tx : Active(t) /\ ~Blocked(t))
    /\ \A t \in Tx : pc[t] # "failed"
    /\ \A j \in 1..4 :
        /\ \A in \in CommittedInputs(j) :
              Cardinality({row \in InputRowsOf(j) : row.k = in}) = 1
        /\ Cardinality(InputRowsOf(j)) = Cardinality(CommittedInputs(j))

\* Both transactions committed the same two files, given in opposite orders.
C1_Witness ==
    /\ Done(1) /\ Done(2)
    /\ req[1].Inputs.Files = <<<<"b.c", "d1">>, <<"a.c", "d2">>>>
    /\ req[2].Inputs.Files = <<<<"a.c", "d2">>, <<"b.c", "d1">>>>
    /\ Cardinality(InputRowsOf(2)) = 2

\* The transaction whose sequence values an id is (see FreshID).
Owner(id) == ((id - 1) % NumTx) + 1

RunTables ==
    {JunctionTable(j) : j \in 1..4} \cup {"task_run_output"}

\* The committed rows that transaction t inserted.
WrittenBy(t) ==
    {row \in db : IF row.tbl \in RunTables THEN Owner(row.r[1]) = t ELSE Owner(row.id) = t}

RECURSIVE CountUploads(_)
CountUploads(outputs) ==
    IF outputs = <<>> THEN 0 ELSE Len(Head(outputs).Uploads) + CountUploads(Tail(outputs))

\* The committed ids of the rows interning input in of kind j.
InputIDs(j, in) ==
    {row.id : row \in {x \in db : x.tbl = InputTable(j)
                                   /\ RowKey(x) = UKeyOf(InputTable(j), in, <<>>)}}

OutputIDs(o) ==
    {row.id : row \in {x \in db : x.tbl = "output" /\ x.k = <<o.Name, o.Type, o.Digest>>
                                   /\ x.r = <<o.SizeBytes>>}}

\* Run runID of call t is visible with all its inputs and outputs.
Complete(t, runID) ==
    /\ \A j \in 1..4 :
        LET jrows == {row \in db : row.tbl = JunctionTable(j) /\ row.r[1] = runID} IN
        /\ Cardinality(jrows) = Len(InputList(req[t], j))
        /\ \A in \in Range(InputList(req[t], j)) :
              \E row \in jrows : row.r[2] \in InputIDs(j, in)
    /\ LET orows == {row \in db : row.tbl = "task_run_output" /\ row.r[1] = runID} IN
        /\ Cardinality(orows) = CountUploads(req[t].Outputs)
        /\ \A row \in orows :
              /\ \E o \in Range(req[t].Outputs) : row.r[2] \in OutputIDs(o)
              /\ \E u \in db : u.tbl = "upload" /\ u.id = row.r[3]
        /\ \A o \in Range(req[t].Outputs) :
              o.Uploads # <<>> => \E row \in orows : row.r[2] \in OutputIDs(o)

\* C2: a SaveTaskRun call that fails returns an error and leaves none of its
\* rows visible; no row of a transaction is visible before its commit, and a
\* visible task_run row always comes with the run's complete inputs and outputs.
C2_AllOrNothing ==
    /\ \A t \in Tx : pc[t] = "failed" => res[t].err = "error"
    /\ \A t \in Tx : ~Done(t) => WrittenBy(t) = {}
    /\ \A row \in db : row.tbl = "task_run" => Complete(Owner(row.id), row.id)
    /\ \A t \in Tx : Done(t) =>
          /\ res[t].err = "nil"
          /\ \E row \in db : row.tbl = "task_run" /\ row.id = res[t].id

\* Call 1 failed at its commit, after writing a file input, an output and an
\* upload; call 2 committed.
C2_Witness ==
    /\ pc[1] = "failed" /\ res[1].id > 0
    /\ req[1].Inputs.Files # <<>> /\ req[1].Outputs # <<>>
    /\ Done(2) /\ req[2].Outputs # <<>>

InternTables ==
    {"vcs", "application", "task", "input_file", "input_env_var", "input_task", "output"}

\* The natural keys of call t have their row.
Interned(t) ==
    /\ \E v \in db :
        /\ v.tbl = "vcs" /\ v.k = <<req[t].VCSRevision, BoolStr(req[t].VCSIsDirty)>>
    /\ \E a \in db :
        /\ a.tbl = "application" /\ a.k = <<req[t].ApplicationName>>
        /\ \E tk \in db : tk.tbl = "task" /\ tk.k = <<req[t].TaskName>> /\ tk.r = <<a.id>>
    /\ \A j \in 2..4 : \A in \in Range(InputList(req[t], j)) :
        \E row \in db : row.tbl = InputTable(j) /\ row.k = in
    /\ \A o \in Range(req[t].Outputs) : OutputIDs(o) # {}

\* Every run that was given file f references the one input_file row of f.
SameFileID(t) ==
    \A f \in Range(req[t].Inputs.Files) :
        \E row \in db :
            /\ row.tbl = "input_file" /\ row.k = f
            /\ \E jr \in db : /\ jr.tbl = "task_run_file_input"
                              /\ jr.r = <<res[t].id, row.id>>

C3_Inv ==
    /\ \A r1, r2 \in db :
        (r1.tbl \in InternTables /\ r1.tbl = r2.tbl /\ r1.k = r2.k /\ r1.r = r2.r) => r1 = r2
    /\ \A t \in Tx : Done(t) => Interned(t) /\ SameFileID(t)

C3_Step == \A row \in db : row \in db'

\* C3: whatever the interleaving of the committed SaveTaskRun calls, each
\* interning table holds exactly one row per natural key a committed call
\* inserted, all runs given the same (path, digest) reference the same
\* input_file id, and a committed row is never changed or removed.
C3_InternedOnceNeverChanged == [](C3_Inv) /\ [][C3_Step]_vars

\* Both calls committed a run of the same build with the same file.
C3_Witness ==
    /\ Done(1) /\ Done(2)
    /\ req[1].ApplicationName = req[2].ApplicationName
    /\ req[1].Inputs.Files = <<<<"a.c", "d2">>>>
    /\ req[2].Inputs.Files = <<<<"a.c", "d2">>>>
    /\ req[1].Outputs # <<>> /\ req[2].Outputs = req[1].Outputs

-----------------------------------------------------------------------------
(* The status command over a registry filled by concurrent SaveTaskRun calls *)

Digests == {"t1", "t2"}
Results == {"success", "failure"}
MaxStop == 2

\* Runs of the task "build" of either application, without inputs and outputs
\* recorded: what the status of a task depends on.
StatusRuns ==
    {[ApplicationName |-> a, TaskName |-> "build", VCSRevision |-> "r1",
      VCSIsDirty |-> FALSE, TotalInputDigest |-> d, StopTimestamp |-> ts,
      Result |-> rs,
      Inputs |-> [Strings |-> <<>>, Files |-> <<>>, EnvironmentVariables |-> <<>>,
                  TaskInfo |-> <<>>],
      Outputs |-> <<>>] :
        a \in Apps, d \in Digests, ts \in 1..MaxStop, rs \in Results}

BeginStatusRun(t) == BeginWith(t, StatusRuns)

\* The committed successful runs of task app.task with the digest.
RunsByDigest(app, task, digest) ==
    {tr \in db :
        /\ tr.tbl = "task_run" /\ tr.k = <<digest, "success">>
        /\ \E tk \in db : /\ tk.tbl = "task" /\ tk.k = <<task>> /\ tk.id = tr.r[2]
                          /\ \E a \in db : /\ a.tbl = "application" /\ a.k = <<app>>
                                           /\ a.id = tk.r[1]}

\* latest_task_run_by_input_digest: the run of these with the latest stop
\* time, if there is one. Of runs that stopped at the same time it is the one
\* the query returns first: for a given state of the registry always the same.
LatestTaskRunByDigest(app, task, digest) ==
    LET latest == {tr \in RunsByDigest(app, task, digest) :
                      \A o \in RunsByDigest(app, task, digest) : o.r[3] <= tr.r[3]}
    IN  IF latest = {} THEN {} ELSE {CHOOSE tr \in latest : TRUE}

\* TaskStatusEvaluator.Status: the status and the run found, 0 if none.
Status(app, task, hasInputs, digest, lookup, alt) ==
    IF ~hasInputs THEN {<<"INPUTS_UNDEFINED", 0>>}
    ELSE IF LatestTaskRunByDigest(app, task, digest) # {}
    THEN {<<"RUN_EXISTS", tr.id>> : tr \in LatestTaskRunByDigest(app, task, digest)}
    ELSE IF lookup # "" /\ LatestTaskRunByDigest(app, task, alt) # {}
    THEN {<<"RUN_EXISTS", tr.id>> : tr \in LatestTaskRunByDigest(app, task, alt)}
    ELSE {<<"PENDING", 0>>}

\* statusCmd.assembleRow for the fields task id, status and run id; the run id
\* is printed with fmt.Sprint, nil is the empty cell.
assembleRow(taskID, status, runID) ==
    <<taskID, status, IF status = "RUN_EXISTS" THEN ToString(runID) ELSE "">>

\* Faulty variant: the evaluation records the digest it looked up.
statusCmdRun_recording ==
    \E app \in Apps, digest \in Digests :
        /\ st' = [task |-> app, digest |-> digest, lookup |-> "", alt |-> "",
                  hasInputs |-> TRUE, status |-> "PENDING", runID |-> 0,
                  row |-> assembleRow(app, "PENDING", 0)]
        /\ db' = db \cup {[tbl |-> "lookup", k |-> <<digest>>, r |-> <<>>, id |-> 0]}
        /\ UNCHANGED <<pc, req, loc, stmt, held, pend, res>>
        /\ UNCHANGED sbvars

\* statusCmd.run for one task: app is the task's application, digest its
\* current total input digest, alt the digest with the lookup input string
\* substituted for the task's input strings.
statusCmdRun ==
    \E app \in Apps, hasInputs \in BOOLEAN, digest \in Digests,
       lookup \in {"", "ci"}, alt \in Digests :
      \E s \in Status(app, "build", hasInputs, digest, lookup, alt) :
        /\ st' = [task |-> app, digest |-> digest, lookup |-> lookup,
                  alt |-> IF lookup = "" THEN "" ELSE alt,
                  hasInputs |-> hasInputs, status |-> s[1], runID |-> s[2],
                  row |-> assembleRow(app, s[1], s[2])]
        /\ UNCHANGED dbvars
        /\ UNCHANGED sbvars

NextStatus ==
    \/ \E t \in Tx :
        \/ BeginStatusRun(t)
        \/ insertVCSIfNotExist(t)
        \/ insertAppIfNotExist(t)
        \/ insertTaskIfNotExist(t)
        \/ insertTaskRun(t)
        \/ Commit(t)
        \/ Fail(t)
    \/ statusCmdRun

SpecStatus == Init /\ [][NextStatus]_vars

\* The SaveTaskRun calls that returned without error for a successful run of
\* the task with the digest.
SavedRuns(app, digest) ==
    {t \in Tx : /\ Done(t) /\ req[t].ApplicationName = app /\ req[t].TaskName = "build"
                /\ req[t].TotalInputDigest = digest /\ req[t].Result = "success"}

LatestSaved(app, digest) ==
    {t \in SavedRuns(app, digest) :
        \A u \in SavedRuns(app, digest) : req[u].StopTimestamp <= req[t].StopTimestamp}

\* The digest under which the status of the evaluated task was found.
FoundDigest(s) ==
    IF SavedRuns(s.task, s.digest) # {} \/ s.lookup = "" THEN s.digest ELSE s.alt

C4_Step ==
    st' # st =>
        /\ st'.status = "RUN_EXISTS" <=>
              /\ st'.hasInputs
              /\ SavedRuns(st'.task, FoundDigest(st')) # {}
        /\ st'.status = "RUN_EXISTS" =>
              \E t \in LatestSaved(st'.task, FoundDigest(st')) : st'.runID = res[t].id
        /\ st'.status # "RUN_EXISTS" =>
              st'.status = IF st'.hasInputs THEN "PENDING" ELSE "INPUTS_UNDEFINED"

\* C4, with the lookup input string taken into account: for a task with inputs the status is RUN_EXISTS exactly when
\* a committed SaveTaskRun stored a successful run of the task with the task's
\* total input digest or, when a lookup input string is given and no run has
\* that digest, with the digest recomputed for the lookup string; the run
\* reported is the latest such run, with the id its SaveTaskRun returned.
\* Otherwise the status is PENDING; a task without inputs is INPUTS_UNDEFINED.
C4_StatusFollowsRegistry == [][C4_Step]_vars

C4_OriginalStep ==
    (st' # st /\ st'.hasInputs) =>
        /\ st'.status = "RUN_EXISTS" <=> SavedRuns(st'.task, st'.digest) # {}
        /\ st'.status = "RUN_EXISTS" =>
              \E t \in LatestSaved(st'.task, st'.digest) : st'.runID = res[t].id
        /\ st'.status # "RUN_EXISTS" => st'.status = "PENDING"

\* C4 as stated: for a task with inputs, RUN_EXISTS with the latest matching
\* run exactly when a committed successful run has the task's identity and
\* its current total input digest, and PENDING otherwise.
C4_Original == [][C4_OriginalStep]_vars

\* The status of app1.build was evaluated after call 1 stored its successful
\* run with digest t1 and call 2 a failed one: RUN_EXISTS with the id call 1
\* returned, found through the lookup input string.
C4_Witness ==
    /\ Done(1) /\ req[1].ApplicationName = "app1" /\ req[1].TotalInputDigest = "t1"
    /\ req[1].Result = "success"
    /\ Done(2) /\ req[2].ApplicationName = "app1" /\ req[2].TotalInputDigest = "t2"
    /\ req[2].Result = "failure"
    /\ st.task = "app1" /\ st.hasInputs /\ st.digest = "t2" /\ st.lookup = "ci"
    /\ st.alt = "t1"
    /\ st.status = "RUN_EXISTS" /\ st.runID = res[1].id
    /\ st.row = <<"app1", "RUN_EXISTS", ToString(res[1].id)>>

-----------------------------------------------------------------------------
(* Landlock: paths, access rights, rulesets and domains *)

\* The directory entry a path string names: its components, and whether it is
\* a directory.  "/usr/lib/" and "/usr/lib" name the same directory.
PathTable ==
    {<<"/repo/app", <<"repo", "app">>, TRUE>>,
     <<"/repo/lib", <<"repo", "lib">>, TRUE>>,
     <<"/repo/app/main.c", <<"repo", "app", "main.c">>, FALSE>>,
     <<"/repo/lib/util.c", <<"repo", "lib", "util.c">>, FALSE>>,
     <<"/usr/bin/", <<"usr", "bin">>, TRUE>>,
     <<"/usr/lib/", <<"usr", "lib">>, TRUE>>,
     <<"/usr/lib", <<"usr", "lib">>, TRUE>>,
     <<"/usr/lib64/", <<"usr", "lib64">>, TRUE>>,
     <<"/usr/lib64", <<"usr", "lib64">>, TRUE>>,
     <<"/lib", <<"lib">>, TRUE>>,
     <<"/lib64", <<"lib64">>, TRUE>>,
     <<"/etc/", <<"etc">>, TRUE>>,
     <<"/etc/ld.so.cache", <<"etc", "ld.so.cache">>, FALSE>>,
     <<"/dev/", <<"dev">>, TRUE>>,
     <<"/proc/", <<"proc">>, TRUE>>,
     <<"/sys/", <<"sys">>, TRUE>>,
     <<"/usr/", <<"usr">>, TRUE>>,
     <<"/var/", <<"var">>, TRUE>>,
     <<"/home/fho/.local", <<"home", "fho", ".local">>, TRUE>>,
     <<"/home/fho/.config", <<"home", "fho", ".config">>, TRUE>>,
     <<"/run", <<"run">>, TRUE>>}

Resolve(path) == (CHOOSE e \in PathTable : e[1] = path)[2]

IsDir(path) == (CHOOSE e \in PathTable : e[1] = path)[3]

Prefix(a, b) == Len(a) <= Len(b) /\ SubSeq(b, 1, Len(a)) = a

\* unix.LANDLOCK_ACCESS_FS_* as sets of rights.
fsRights == {"READ_DIR", "READ_FILE"}

DirOnlyRights == {"MAKE_DIR", "READ_DIR", "REMOVE_DIR"}

fileRights == fsRights \ DirOnlyRights

\* Faulty variant: a directory gets the rights of a file.
accessRights_fileOnly(path) == fileRights

\* Faulty variant: every path gets the rights of a directory.
accessRights_dirAlways(path) == fsRights

accessRights(path) == IF IsDir(path) THEN fsRights ELSE fileRights

Errnos == {"EOPNOTSUPP", "ENOSYS", "EINVAL"}

errnoToError(err) ==
    IF err # "0"
    THEN IF err = "EOPNOTSUPP" THEN "ErrLandlockDisabled"
         ELSE IF err = "ENOSYS" THEN "ErrLandLockNotSupported"
         ELSE err
    ELSE "nil"

\* The access right the kernel asks for, and the path it asks it for: the file
\* or directory itself, or the parent directory when an entry is made or removed.
RightFor(op) ==
    CASE op = "read" -> "READ_FILE"
      [] op = "list" -> "READ_DIR"
      [] op = "write" -> "WRITE_FILE"
      [] op = "truncate" -> "TRUNCATE"
      [] op = "create" -> "MAKE_REG"
      [] op = "remove" -> "REMOVE_FILE"

CheckedPath(op, target) ==
    IF op \in {"create", "remove"} THEN SubSeq(target, 1, Len(target) - 1) ELSE target

\* A ruleset restricts the rights it handles, and those only: a handled right
\* is granted on a path by a rule for the path or for a directory above it.
LayerPermits(layer, op, target) ==
    \/ RightFor(op) \notin layer.handled
    \/ \E rule \in layer.rules :
          /\ Prefix(rule.path, CheckedPath(op, target))
          /\ RightFor(op) \in rule.rights

\* A domain is the stack of the rulesets the process restricted itself with.
Permitted(dom, op, target) ==
    \A n \in 1..Len(dom) : LayerPermits(dom[n], op, target)

\* The files and directories the accesses of the model go to: an input file, a
\* file in a task directory that is no input, a file elsewhere, directories.
FileTargets ==
    {<<"repo", "lib", "util.c">>, <<"repo", "app", "notes.txt">>, <<"tmp", "secret">>}

DirTargets == {<<"repo", "app">>, <<"tmp">>}

\* The process that runs the tasks reads files and directories; a command, and
\* a process that has restricted itself, may try anything.
OpsOn(p, target) ==
    IF target \in DirTargets THEN {"list"}
    ELSE IF p = Runner THEN {"read"}
    ELSE {"read", "write", "truncate", "create", "remove"}

Alive(p) == proc[p].pc \notin {"none", "exited"}

\* A process opens a file or directory, or changes the filesystem.
Access(p) ==
    /\ Alive(p)
    /\ p = Runner \/ proc[p].dom # <<>> \/ proc[p].pc = "running"
    /\ \E target \in FileTargets \cup DirTargets : \E op \in OpsOn(p, target) :
          acc' = [p |-> p, op |-> op, target |-> target,
                  restricted |-> proc[p].dom # <<>>,
                  ok |-> Permitted(proc[p].dom, op, target)]
    /\ UNCHANGED <<proc, run, tmp, st, ll>>
    /\ UNCHANGED dbvars

-----------------------------------------------------------------------------
(* CmdSandboxed.Exec, one action per system call *)

Step(p, fields) ==
    /\ proc' = [proc EXCEPT ![p] = fields]
    /\ acc' = NoAcc
    /\ UNCHANGED <<run, tmp, st, ll>>
    /\ UNCHANGED dbvars

Called(p, name, arg) == Append(proc[p].calls, <<name, arg>>)

\* Faulty variant: the error is kept but the next steps are taken all the same.
Return_goOn(p, step, cause) ==
    Step(p, [proc[p] EXCEPT !.pc = "exec", !.err = [step |-> step, cause |-> cause]])

\* return fmt.Errorf("<step>: %w", err)
Return(p, step, cause) ==
    Step(p, [proc[p] EXCEPT !.pc = "returned", !.err = [step |-> step, cause |-> cause]])

AfterRuleset(cmd, i) ==
    IF i <= Len(cmd.AllowedFSAccessPaths) THEN "allow" ELSE "prctl"

NewFSRuleset(p) ==
    /\ proc[p].pc = "ruleset"
    /\ \/ Step(p, [proc[p] EXCEPT
                     !.rs = [created |-> TRUE, handled |-> fsRights, rules |-> {}],
                     !.i = 1,
                     !.calls = Called(p, "landlock_create_ruleset", ""),
                     !.pc = AfterRuleset(proc[p].cmd, 1)])
       \/ \E e \in Errnos :
            Return(p, "creating landlock ruleset failed", errnoToError(e))

\* One pass of the loop over AllowedFSAccessPaths: the directory test or the
\* open of the path fails, or landlock_add_rule fails, or the rule is added.
Allow(p) ==
    /\ proc[p].pc = "allow"
    /\ LET path == proc[p].cmd.AllowedFSAccessPaths[proc[p].i] IN
       \/ Step(p, [proc[p] EXCEPT
                     !.rs.rules = @ \cup {[path |-> Resolve(path),
                                           rights |-> accessRights(path)]},
                     !.i = @ + 1,
                     !.calls = Called(p, "landlock_add_rule", path),
                     !.pc = AfterRuleset(proc[p].cmd, proc[p].i + 1)])
       \/ \E cause \in {"ENOENT"} \cup {errnoToError(e) : e \in Errnos} :
            Return(p, "adding landlock rule failed", cause)

\* Restrict: prctl(PR_SET_NO_NEW_PRIVS) ...
RestrictNoNewPrivs(p) ==
    /\ proc[p].pc = "prctl"
    /\ \/ Step(p, [proc[p] EXCEPT !.nnp = TRUE,
                                  !.calls = Called(p, "prctl_no_new_privs", ""),
                                  !.pc = "restrict"])
       \/ Return(p, "restricting landlock file access failed", "prctl failed")

\* Faulty variant: the result of landlock_restrict_self is not looked at.
RestrictSelf_unchecked(p) ==
    /\ proc[p].pc = "restrict"
    /\ \/ Step(p, [proc[p] EXCEPT
                     !.dom = Append(@, [handled |-> proc[p].rs.handled,
                                        rules |-> proc[p].rs.rules]),
                     !.restricts = @ + 1,
                     !.calls = Called(p, "landlock_restrict_self", ""),
                     !.pc = "chdir"])
       \/ Step(p, [proc[p] EXCEPT !.pc = "chdir"])

\* ... then landlock_restrict_self with the ruleset.
RestrictSelf(p) ==
    /\ proc[p].pc = "restrict"
    /\ \/ Step(p, [proc[p] EXCEPT
                     !.dom = Append(@, [handled |-> proc[p].rs.handled,
                                        rules |-> proc[p].rs.rules]),
                     !.restricts = @ + 1,
                     !.calls = Called(p, "landlock_restrict_self", ""),
                     !.pc = "chdir"])
       \/ \E e \in Errnos :
            Return(p, "restricting landlock file access failed", errnoToError(e))

Chdir(p) ==
    /\ proc[p].pc = "chdir"
    /\ \/ Step(p, [proc[p] EXCEPT !.cwd = proc[p].cmd.Dir,
                                  !.calls = Called(p, "chdir", proc[p].cmd.Dir),
                                  !.pc = "exec"])
       \/ Return(p, "chdir", "ENOENT")

\* syscall.Exec(c.Name, c.Args, c.Env): the image is replaced; domain,
\* no-new-privileges flag and working directory stay with the process.
SyscallExec(p) ==
    /\ proc[p].pc = "exec"
    /\ \/ Step(p, [proc[p] EXCEPT !.image = proc[p].cmd.Name,
                                  !.argv = proc[p].cmd.Args,
                                  !.envp = proc[p].cmd.Env,
                                  !.calls = Called(p, "execve", proc[p].cmd.Name),
                                  !.pc = "running"])
       \/ Return(p, "exec failed", "ENOENT")

\* What is left of a process that ended.
Exited(p, code) ==
    [NoProc EXCEPT !.pc = "exited", !.code = code, !.image = proc[p].image,
                   !.restricts = proc[p].restricts]

\* exitOnErr(sbCmd.Exec()): the error is written to standard error and the
\* process ends with status 1.
exitOnErr(p) ==
    /\ proc[p].pc = "returned"
    /\ Step(p, [Exited(p, 1) EXCEPT !.err = proc[p].err])

\* The command ends.
ImageExit(p) ==
    /\ proc[p].pc = "running"
    /\ \E code \in {0, 1} : Step(p, Exited(p, code))

-----------------------------------------------------------------------------
(* Tasks and their resolved inputs *)

Tasks ==
    {[ID |-> "app.build", Command |-> <<"/usr/bin/make", "all">>,
      Directory |-> "/repo/app", RepositoryRoot |-> "/repo"],
     [ID |-> "lib.check", Command |-> <<"/bin/true">>,
      Directory |-> "/repo/lib", RepositoryRoot |-> "/repo"]}

InputFile(path) == [kind |-> "file", v |-> path]
InputString(value) == [kind |-> "string", v |-> value]

ResolvedInputs ==
    {<<>>,
     <<InputFile("/repo/lib/util.c")>>,
     <<InputString("x"), InputFile("/repo/app/main.c"), InputFile("/repo/lib/util.c")>>}

IsInputFile(in) == in.kind = "file"

\* The paths of the file inputs, in order.
InputsToFSPaths(inputs) ==
    [n \in 1..Len(SelectSeq(inputs, IsInputFile)) |-> SelectSeq(inputs, IsInputFile)[n].v]

-----------------------------------------------------------------------------
(* baur shell: Exec in the process of the command *)

ShellPaths ==
    <<"/usr/bin/", "/usr/lib/", "/usr/lib64/", "/etc/", "/dev/", "/proc/", "/sys/",
      "/usr/", "/var/", "/home/fho/.local", "/home/fho/.config", "/run">>

shellCmdRun ==
    /\ proc[Shell].pc = "none"
    /\ \E task \in Tasks, inputs \in ResolvedInputs :
          Step(Shell, [NoProc EXCEPT
                 !.pc = "ruleset", !.cwd = "/repo", !.image = "baur",
                 !.argv = <<"baur", "shell", task.ID>>, !.envp = Environ,
                 !.cmd = [Name |-> "/bin/bash", Args |-> <<>>, Dir |-> task.Directory,
                          Env |-> Environ,
                          AllowedFSAccessPaths |->
                              InputsToFSPaths(inputs) \o ShellPaths
                                  \o <<task.Directory>>]])

NextExec ==
    \/ shellCmdRun
    \/ NewFSRuleset(Shell)
    \/ Allow(Shell)
    \/ RestrictNoNewPrivs(Shell)
    \/ RestrictSelf(Shell)
    \/ Chdir(Shell)
    \/ SyscallExec(Shell)
    \/ exitOnErr(Shell)
    \/ ImageExit(Shell)
    \/ Access(Shell)

SpecExec == Init /\ [][NextExec]_vars

\* The system calls of a complete Exec, in order.
ExecCalls(cmd) ==
    <<<<"landlock_create_ruleset", "">>>>
        \o [n \in 1..Len(cmd.AllowedFSAccessPaths) |->
               <<"landlock_add_rule", cmd.AllowedFSAccessPaths[n]>>]
        \o <<<<"prctl_no_new_privs", "">>, <<"landlock_restrict_self", "">>,
             <<"chdir", cmd.Dir>>, <<"execve", cmd.Name>>>>

InExec(p) == proc[p].pc \notin {"none", "main", "decode", "exited"}

\* The ruleset with a rule for every entry of the allow-list.
FullRuleset(cmd) ==
    [handled |-> {"READ_DIR", "READ_FILE"},
     rules |-> {[path |-> Resolve(cmd.AllowedFSAccessPaths[n]),
                 rights |-> IF IsDir(cmd.AllowedFSAccessPaths[n])
                            THEN {"READ_DIR", "READ_FILE"} ELSE {"READ_FILE"}] :
                   n \in 1..Len(cmd.AllowedFSAccessPaths)}]

\* C5: the system calls of Exec are made in the order create ruleset, one rule
\* per entry of AllowedFSAccessPaths, no-new-privileges, restrict-self, chdir,
\* execve; and the image is replaced only when the ruleset was created, a rule
\* was added for every path, and the process is restricted by that ruleset.
C5_ExecOnlyAfterSandboxInstalled ==
    \A p \in Procs : InExec(p) =>
        /\ Prefix(proc[p].calls, ExecCalls(proc[p].cmd))
        /\ proc[p].pc = "running" =>
              /\ proc[p].calls = ExecCalls(proc[p].cmd)
              /\ proc[p].nnp
              /\ proc[p].dom = <<FullRuleset(proc[p].cmd)>>
              /\ proc[p].cwd = proc[p].cmd.Dir
              /\ proc[p].image = proc[p].cmd.Name
        /\ proc[p].image # "baur" => proc[p].pc = "running"

\* The shell runs, restricted, after an Exec with two file inputs.
C5_Witness ==
    /\ proc[Shell].pc = "running"
    /\ proc[Shell].image = "/bin/bash"
    /\ Len(proc[Shell].calls) = 20
    /\ Len(proc[Shell].dom) = 1

\* The entries of the allow-list that cover the target.
Covering(cmd, target) ==
    {n \in 1..Len(cmd.AllowedFSAccessPaths) :
        Prefix(Resolve(cmd.AllowedFSAccessPaths[n]), target)}

\* C6: once the process has restricted itself, opening a file for reading or
\* a directory for listing is permitted exactly when the file or directory is
\* an entry of the allow-list or lies beneath an allowed directory.
C6_ReadsFollowAllowList ==
    (/\ acc.p = Shell /\ Alive(Shell) /\ acc.restricted
     /\ acc.op \in {"read", "list"}) =>
        (acc.ok <=> Covering(proc[Shell].cmd, acc.target) # {})

\* The shell was denied /tmp/secret after Exec replaced the image.
C6_Witness ==
    /\ proc[Shell].pc = "running"
    /\ acc = [p |-> Shell, op |-> "read", target |-> <<"tmp", "secret">>,
              restricted |-> TRUE, ok |-> FALSE]

\* The shell read an input file that is allowed as a file.
C6_WitnessAllowed ==
    /\ proc[Shell].pc = "running"
    /\ proc[Shell].cmd.Dir = "/repo/app"
    /\ acc = [p |-> Shell, op |-> "read", target |-> <<"repo", "lib", "util.c">>,
              restricted |-> TRUE, ok |-> TRUE]

-----------------------------------------------------------------------------
(* TaskRunner.RunSandboxed and the re-executed child *)

baurRunSandboxedSubCmd == "__run_sandboxed"

NotEmpty(str) == str # ""

\* Faulty variant: empty strings are left out of the lists as empty fields
\* are left out of the record.
encodeCmdSb_dropEmpty(cmd) ==
    (IF cmd.Name = "" THEN <<>> ELSE <<<<1, cmd.Name>>>>)
        \o (IF Len(cmd.Args) = 0 THEN <<>> ELSE <<<<2, SelectSeq(cmd.Args, NotEmpty)>>>>)
        \o (IF cmd.Dir = "" THEN <<>> ELSE <<<<3, cmd.Dir>>>>)
        \o (IF Len(cmd.Env) = 0 THEN <<>> ELSE <<<<4, cmd.Env>>>>)
        \o (IF Len(cmd.AllowedFSAccessPaths) = 0 THEN <<>>
            ELSE <<<<5, cmd.AllowedFSAccessPaths>>>>)

\* gob writes the fields of the struct that are not zero, each with its field
\* number; decoding starts from the zero value and sets the fields it reads.
encodeCmdSb(cmd) ==
    (IF cmd.Name = "" THEN <<>> ELSE <<<<1, cmd.Name>>>>)
        \o (IF Len(cmd.Args) = 0 THEN <<>> ELSE <<<<2, cmd.Args>>>>)
        \o (IF cmd.Dir = "" THEN <<>> ELSE <<<<3, cmd.Dir>>>>)
        \o (IF Len(cmd.Env) = 0 THEN <<>> ELSE <<<<4, cmd.Env>>>>)
        \o (IF Len(cmd.AllowedFSAccessPaths) = 0 THEN <<>>
            ELSE <<<<5, cmd.AllowedFSAccessPaths>>>>)

GobField(buf, n, zero) ==
    IF \E j \in 1..Len(buf) : buf[j][1] = n
    THEN buf[CHOOSE j \in 1..Len(buf) : buf[j][1] = n][2]
    ELSE zero

decodeCmdSb(buf) ==
    [Name |-> GobField(buf, 1, ""), Args |-> GobField(buf, 2, <<>>),
     Dir |-> GobField(buf, 3, ""), Env |-> GobField(buf, 4, <<>>),
     AllowedFSAccessPaths |-> GobField(buf, 5, <<>>)]

\* What GitUntrackedFilesFn can return.
UntrackedResults ==
    {[called |-> TRUE, err |-> "nil", files |-> <<>>],
     [called |-> TRUE, err |-> "nil", files |-> <<"new.txt">>],
     [called |-> TRUE, err |-> "nil", files |-> <<"b.tmp", "a.tmp">>],
     [called |-> TRUE, err |-> "git failed", files |-> <<>>]}

\* Faulty variant: one of the two is enough.
IsSkipped_either(skipAfterError, skipRuns) == skipAfterError \/ skipRuns

\* if t.skipAfterError && t.SkipRunsIsEnabled()
IsSkipped(skipAfterError, skipRuns) == skipAfterError /\ skipRuns

\* Faulty variant: the list of untracked files is not looked at.
UntrackedGate_ignored(q) == NoRet

\* What RunSandboxed returns after the call of GitUntrackedFilesFn, NoRet if
\* it goes on.
UntrackedGate(q) ==
    IF q.err # "nil" THEN [result |-> -1, err |-> q.err, untracked |-> <<>>]
    ELSE IF Len(q.files) # 0
    THEN [result |-> -1, err |-> "ErrUntrackedGitFilesExist", untracked |-> q.files]
    ELSE NoRet

RunnerStep(fields) ==
    /\ run' = fields
    /\ acc' = NoAcc
    /\ UNCHANGED <<st, ll>>
    /\ UNCHANGED dbvars

\* RunSandboxed up to the call of createTaskInfoEnv.
RunSandboxedBegin ==
    /\ run.pc \in {"idle", "returned"}
    /\ run.n < MaxRuns
    /\ \E task \in Tasks, inputs \in ResolvedInputs,
          skipAfterError \in BOOLEAN, skipRuns \in BOOLEAN, fnSet \in BOOLEAN,
          q \in UntrackedResults :
        LET c == [NoCall EXCEPT !.n = run.n + 1, !.task = task, !.inputs = inputs,
                                !.skipAfterError = skipAfterError,
                                !.skipRuns = skipRuns, !.fnSet = fnSet]
        IN
        IF IsSkipped(skipAfterError, skipRuns)
        THEN RunnerStep([c EXCEPT !.pc = "returned",
                                  !.ret = [result |-> -1, err |-> "ErrTaskRunSkipped",
                                           untracked |-> <<>>]])
        ELSE IF fnSet /\ UntrackedGate(q) # NoRet
        THEN RunnerStep([c EXCEPT !.pc = "returned", !.queried = q,
                                  !.ret = UntrackedGate(q)])
        ELSE RunnerStep([c EXCEPT !.pc = "env",
                                  !.queried = IF fnSet THEN q ELSE NoQuery])
    /\ UNCHANGED <<proc, tmp>>

\* createTaskInfoEnv: the task-info temp file of this call, if the task needs
\* one, and the environment variable that names it.
createTaskInfoEnv ==
    /\ run.pc = "env"
    /\ \/ /\ RunnerStep([run EXCEPT !.pc = "spawn"])
          /\ tmp' = tmp
       \/ /\ RunnerStep([run EXCEPT !.pc = "spawn", !.files = {run.n},
                                    !.env = <<"BAUR_TASK_INFO=/tmp/taskinfo">>])
          /\ tmp' = tmp \cup {run.n}
       \/ /\ RunnerStep([run EXCEPT !.pc = "returned",
                                    !.ret = [result |-> -1, err |-> "task info failed",
                                             untracked |-> <<>>]])
          /\ tmp' = tmp
    /\ UNCHANGED proc

sbCmd ==
    [Name |-> run.task.Command[1],
     Args |-> Tail(run.task.Command),
     Dir |-> run.task.Directory,
     Env |-> Environ \o run.env,
     AllowedFSAccessPaths |-> InputsToFSPaths(run.inputs)]

\* Faulty variant: the command record is executed by the calling process.
ExecProcess_caller(n) == Runner

\* The process that executes the command record of call n: /proc/self/exe,
\* started anew with the marker argument.
ExecProcess(n) == n

\* Faulty variant: the return without the deferred call.
RunSandboxedReturn_nodefer(ret) ==
    /\ RunnerStep([run EXCEPT !.pc = "returned", !.ret = ret])
    /\ tmp' = tmp

\* defer deleteTempTaskInfoFilesFn(), and the return: deletes counts the calls
\* of the delete function.
RunSandboxedReturn(ret) ==
    /\ RunnerStep([run EXCEPT !.pc = "returned", !.ret = ret, !.deletes = @ + 1])
    /\ tmp' = tmp \ run.files

\* encodeCmdSb and exec.Command("/proc/self/exe", ...).Run up to the start of
\* the child.
Spawn ==
    /\ run.pc = "spawn"
    /\ \/ /\ RunSandboxedReturn([result |-> -1, err |-> "encoding CmdSandboxed failed",
                                 untracked |-> <<>>])
          /\ UNCHANGED proc
       \/ /\ RunSandboxedReturn([result |-> -1, err |-> "start failed",
                                 untracked |-> <<>>])
          /\ UNCHANGED proc
       \/ /\ RunnerStep([run EXCEPT !.pc = "wait"])
          /\ tmp' = tmp
          /\ proc' = [proc EXCEPT ![ExecProcess(run.n)] =
                        [NoProc EXCEPT !.pc = "decode",
                                       !.stdin = encodeCmdSb(sbCmd),
                                       !.cwd = run.task.Directory,
                                       !.image = "baur",
                                       !.argv = <<"/proc/self/exe", baurRunSandboxedSubCmd>>,
                                       !.envp = Environ \o run.env]]

\* The handler of the marker argument in the child: read the record from
\* standard input, then Exec.
runSandboxedSubCmd(p) ==
    /\ proc[p].pc = "decode"
    /\ Step(p, [proc[p] EXCEPT !.cmd = decodeCmdSb(proc[p].stdin), !.pc = "ruleset"])

\* Run returns when the child has ended.
RunSandboxedWait ==
    /\ run.pc = "wait"
    /\ proc[ExecProcess(run.n)].pc = "exited"
    /\ RunSandboxedReturn([result |-> proc[ExecProcess(run.n)].code, err |-> "nil",
                           untracked |-> <<>>])
    /\ UNCHANGED proc

RunnerProcs == {Runner} \cup Children

NextRunner ==
    \/ RunSandboxedBegin
    \/ createTaskInfoEnv
    \/ Spawn
    \/ RunSandboxedWait
    \/ \E p \in RunnerProcs :
        \/ runSandboxedSubCmd(p)
        \/ NewFSRuleset(p)
        \/ Allow(p)
        \/ RestrictNoNewPrivs(p)
        \/ RestrictSelf(p)
        \/ Chdir(p)
        \/ SyscallExec(p)
        \/ exitOnErr(p)
        \/ ImageExit(p)
        \/ Access(p)

SpecRunner == Init /\ [][NextRunner]_vars

\* C7 as stated: a restricted child is denied every write, truncation,
\* creation and removal of a file.
C7_ChildCannotModify ==
    (/\ acc.p \in Children /\ acc.restricted
     /\ acc.op \in {"write", "truncate", "create", "remove"}) => ~acc.ok

\* The paths the allow-list of a task run has to contain.
SystemPaths == {"/usr/lib", "/usr/lib64", "/lib", "/lib64", "/etc/ld.so.cache"}

RequiredPaths(task, inputs) ==
    {Resolve(path) : path \in Range(InputsToFSPaths(inputs)) \cup {task.Directory}
                                 \cup SystemPaths}

\* C8 as stated: the allow-list of the child of every RunSandboxed call names
\* every file input, the task directory and the system paths.
C8_AllowListComplete ==
    (run.pc = "wait" /\ InExec(ExecProcess(run.n))) =>
        RequiredPaths(run.task, run.inputs) \subseteq
            {Resolve(path) :
                path \in Range(proc[ExecProcess(run.n)].cmd.AllowedFSAccessPaths)}

\* The child of call n was started.
Spawned(n) == proc[ExecProcess(n)].pc # "none"

\* C9: when GitUntrackedFilesFn was called and reported untracked files, the
\* call has returned ErrUntrackedGitFilesExist with exactly that list, and when
\* it failed, its error; in both cases no task-info file of the call exists,
\* no child was started for it, no process was restricted on its behalf and
\* no run is stored.
C9_UntrackedFilesAbortFirst ==
    (run.queried.called /\ (run.queried.err # "nil" \/ run.queried.files # <<>>)) =>
        /\ run.pc = "returned"
        /\ run.ret.result = -1
        /\ run.ret.err = IF run.queried.err # "nil" THEN run.queried.err
                         ELSE "ErrUntrackedGitFilesExist"
        /\ run.ret.untracked = run.queried.files
        /\ run.files = {} /\ run.n \notin tmp
        /\ ~Spawned(run.n)
        /\ proc[Runner].dom = <<>> /\ ~proc[Runner].rs.created
        /\ db = {}

\* The second call returned the two untracked files in the reported order,
\* after a first call that ran its command.
C9_Witness ==
    /\ run.n = 2 /\ run.pc = "returned"
    /\ run.ret.err = "ErrUntrackedGitFilesExist"
    /\ run.ret.untracked = <<"b.tmp", "a.tmp">>
    /\ proc[1].pc = "exited" /\ proc[1].restricts = 1
    /\ proc[2].pc = "none"

\* C10: the process that calls RunSandboxed never creates a ruleset, never
\* sets no-new-privileges and is never restricted, so every read of it is
\* permitted; each child restricts itself at most once, and exactly once
\* before it runs the command.
C10_ParentNeverRestricted ==
    /\ proc[Runner].pc = "main"
    /\ proc[Runner].dom = <<>> /\ proc[Runner].restricts = 0
    /\ ~proc[Runner].rs.created /\ ~proc[Runner].nnp
    /\ acc.p = Runner => acc.ok /\ ~acc.restricted
    /\ \A k \in Children :
        /\ proc[k].restricts <= 1
        /\ Len(proc[k].dom) = IF Alive(k) THEN proc[k].restricts ELSE 0
        /\ proc[k].image \notin {"", "baur"} => proc[k].restricts = 1

\* After the first child ran its command restricted and while the second
\* does, the parent reads an input file.
C10_Witness ==
    /\ proc[1].pc = "exited" /\ proc[1].restricts = 1 /\ proc[1].image = "/usr/bin/make"
    /\ proc[2].pc = "running" /\ proc[2].restricts = 1
    /\ run.n = 2 /\ run.pc = "wait"
    /\ acc = [p |-> Runner, op |-> "read", target |-> <<"repo", "lib", "util.c">>,
              restricted |-> FALSE, ok |-> TRUE]

-----------------------------------------------------------------------------
(* Failures of Exec *)

\* The number of system calls Exec has made when the step fails.
CallsBefore(p, step) ==
    LET n == Len(proc[p].cmd.AllowedFSAccessPaths) IN
    CASE step = "creating landlock ruleset failed" -> {0}
      [] step = "adding landlock rule failed" -> 1..n
      [] step = "restricting landlock file access failed" -> {n + 1, n + 2}
      [] step = "chdir" -> {n + 3}
      [] step = "exec failed" -> {n + 4}
      [] OTHER -> {}

Failed(p) == proc[p].err # NoErr

C11_Inv ==
    /\ \A p \in Children :
        /\ proc[p].pc = "returned" =>
              /\ Failed(p) /\ proc[p].err.cause # "nil"
              /\ Prefix(proc[p].calls, ExecCalls(proc[p].cmd))
              /\ Len(proc[p].calls) \in CallsBefore(p, proc[p].err.step)
        /\ Failed(p) =>
              /\ proc[p].pc \in {"returned", "exited"}
              /\ proc[p].image = "baur"
              /\ proc[p].pc = "exited" => proc[p].code = 1
    /\ (run.pc = "returned" /\ run.ret.err = "nil" /\ Failed(ExecProcess(run.n))) =>
          run.ret.result = 1

C11_Step ==
    \A p \in Children :
        proc[p].pc = "returned" =>
            \/ proc'[p] = proc[p]
            \/ proc'[p] = [Exited(p, 1) EXCEPT !.err = proc[p].err]

\* C11: when the creation of the ruleset, an Allow, Restrict, chdir or the
\* exec fails in the child, Exec returns an error that names the step, having
\* made the system calls before that step and none after it; the command is
\* never run, the child ends with status 1 and its error message, and
\* RunSandboxed hands that status to its caller.
C11_FailedStepEndsExec == [](C11_Inv) /\ [][C11_Step]_vars

\* The second rule of the child could not be added; RunSandboxed returned the
\* child's status 1.
C11_Witness ==
    /\ run.n = 1 /\ run.pc = "returned" /\ run.ret.result = 1
    /\ proc[1].pc = "exited" /\ proc[1].image = "baur"
    /\ proc[1].err = [step |-> "adding landlock rule failed", cause |-> "ENOENT"]
    /\ Len(run.inputs) = 3

-----------------------------------------------------------------------------
(* CreateRelease: one transaction per call *)

ReleaseNames == {"v1", "v2"}

\* The releases asked for: a name and the ids of the task runs it is made of.
Releases ==
    {[ReleaseName |-> name, TaskRunIDs |-> ids, CreatedAt |-> 1] :
        name \in ReleaseNames, ids \in {<<>>, <<1>>, <<2, 1>>}}

ErrNoTaskRunIDs == "no task run IDs were specified"

\* Faulty variant: every error of the statement is returned as it came.
pgErrToError_plain(code, constraint) == code

\* insertRelease: what is returned for an error of the INSERT, given its
\* SQLSTATE and the constraint it names.
pgErrToError(code, constraint) ==
    IF code = "23505" /\ constraint = "release_name_uniq" THEN "ErrExists" ELSE code

\* Faulty variant: the list is not tested.
NoTaskRunIDs_unchecked(ids) == FALSE

\* if len(taskRunIDs) == 0
NoTaskRunIDs(ids) == Len(ids) = 0

BeginRelease(t) ==
    /\ pc[t] = "idle"
    /\ \E rel \in Releases : req' = [req EXCEPT ![t] = rel]
    /\ pc' = [pc EXCEPT ![t] = "release"]
    /\ UNCHANGED <<loc, stmt, held, pend, db, res>>
    /\ UNCHANGED nondb

\* BeginFunc rolls back and CreateRelease returns the error.
AbortRelease(t, err) ==
    /\ RollbackTx(t)
    /\ res' = [res EXCEPT ![t] = [id |-> 0, err |-> err]]
    /\ pc' = [pc EXCEPT ![t] = "failed"]
    /\ loc' = [loc EXCEPT ![t] = NoLoc]
    /\ UNCHANGED <<req, stmt>>
    /\ UNCHANGED nondb

ReleaseKey(name) == [tbl |-> "release", k |-> <<name>>, r |-> <<>>]

\* INSERT INTO release: a committed row with the name violates
\* release_name_uniq; an uncommitted one makes the statement wait.
insertRelease(t) ==
    /\ pc[t] = "release"
    /\ LockFree(t, ReleaseKey(req[t].ReleaseName))
    /\ IF \E row \in db : row.tbl = "release" /\ row.k = <<req[t].ReleaseName>>
       THEN AbortRelease(t, pgErrToError("23505", "release_name_uniq"))
       ELSE /\ pend' = PendAfter(t, {[tbl |-> "release", k |-> <<req[t].ReleaseName>>,
                                      r |-> <<req[t].CreatedAt>>,
                                      id |-> FreshID(t, "release", 0)]})
            /\ held' = [held EXCEPT ![t] = @ \cup {ReleaseKey(req[t].ReleaseName)}]
            /\ loc' = [loc EXCEPT ![t].runID = FreshID(t, "release", 0)]
            /\ pc' = [pc EXCEPT ![t] = "release_task_run"]
            /\ UNCHANGED <<req, stmt, db, res>>
            /\ UNCHANGED nondb

ReleaseTaskRunRows(t) ==
    {[tbl |-> "release_task_run", k |-> <<>>,
      r |-> <<loc[t].runID, req[t].TaskRunIDs[n]>>, id |-> n] :
        n \in 1..Len(req[t].TaskRunIDs)}

insertReleaseTaskRun(t) ==
    /\ pc[t] = "release_task_run"
    /\ IF NoTaskRunIDs(req[t].TaskRunIDs)
       THEN AbortRelease(t, ErrNoTaskRunIDs)
       ELSE /\ DoInsert(t, ReleaseTaskRunRows(t))
            /\ pc' = [pc EXCEPT ![t] = "commit"]
            /\ UNCHANGED <<req, loc, stmt, res>>
            /\ UNCHANGED nondb

CommitRelease(t) ==
    /\ pc[t] = "commit"
    /\ CommitTx(t)
    /\ pc' = [pc EXCEPT ![t] = "done"]
    /\ res' = [res EXCEPT ![t] = [id |-> 0, err |-> "nil"]]
    /\ loc' = [loc EXCEPT ![t] = NoLoc]
    /\ UNCHANGED <<req, stmt>>
    /\ UNCHANGED nondb

\* Reading the metadata, a statement or the commit fails.
FailRelease(t) ==
    /\ Active(t)
    /\ AbortRelease(t, "error")

NextRelease ==
    \E t \in Tx :
        \/ BeginRelease(t)
        \/ insertRelease(t)
        \/ insertReleaseTaskRun(t)
        \/ CommitRelease(t)
        \/ FailRelease(t)

SpecRelease == Init /\ [][NextRelease]_vars

Finished(t) == pc[t] \in {"done", "failed"}

ReleaseRows(name) == {row \in db : row.tbl = "release" /\ row.k = <<name>>}

PairsOf(id) == {row \in db : row.tbl = "release_task_run" /\ row.r[1] = id}

C12_Inv ==
    /\ \A name \in ReleaseNames : Cardinality(ReleaseRows(name)) <= 1
    /\ \A row \in db : Done(Owner(IF row.tbl = "release" THEN row.id ELSE row.r[1]))
    /\ \A t \in Tx :
        /\ Done(t) =>
              \E row \in ReleaseRows(req[t].ReleaseName) :
                  /\ Owner(row.id) = t
                  /\ {pair.r[2] : pair \in PairsOf(row.id)} = Range(req[t].TaskRunIDs)
        /\ (pc[t] = "failed" /\ res[t].err = "ErrExists") =>
              \E row \in ReleaseRows(req[t].ReleaseName) : Owner(row.id) # t
        /\ (Finished(t) /\ req[t].TaskRunIDs # <<>> /\ res[t].err # "error") =>
              /\ Cardinality({u \in Tx : Done(u) /\ req[u].ReleaseName = req[t].ReleaseName}) = 1
              /\ ~Done(t) => res[t].err = "ErrExists"

\* C12: a CreateRelease for a name that has a committed release row returns
\* storage.ErrExists; of the calls with the same name and task runs, one after
\* the other or racing, exactly one commits and each other returns ErrExists;
\* there is never more than one release row per name, nothing of the rejected
\* call is stored, and a committed release row and its pairs never change.
C12_ReleaseNameTakenOnce == [](C12_Inv) /\ [][C3_Step]_vars

\* Both calls asked for v1; call 2 committed its two pairs, call 1 was rejected.
C12_Witness ==
    /\ Done(2) /\ req[2].ReleaseName = "v1" /\ req[2].TaskRunIDs = <<2, 1>>
    /\ pc[1] = "failed" /\ res[1].err = "ErrExists"
    /\ req[1].ReleaseName = "v1" /\ req[1].TaskRunIDs = <<1>>
    /\ Cardinality(db) = 3

C13_Inv ==
    \A t \in Tx :
        /\ (Finished(t) /\ req[t].TaskRunIDs = <<>>) =>
              /\ pc[t] = "failed"
              /\ res[t].err \in {ErrNoTaskRunIDs, "ErrExists", "error"}
              /\ \A row \in db : Owner(IF row.tbl = "release" THEN row.id ELSE row.r[1]) # t
        /\ res[t].err = "ErrExists" =>
              \E u \in Tx \ {t} : /\ Done(u) /\ req[u].ReleaseName = req[t].ReleaseName
                                  /\ req[u].TaskRunIDs # <<>>

\* C13, with the order of the two statements taken into account: a
\* CreateRelease with an empty list of task run ids always fails and stores
\* nothing, with the error "no task run IDs were specified" unless the insert
\* of the release row failed before (ErrExists when the name is taken); its
\* release row does not persist, so ErrExists is only ever caused by a
\* committed release with task runs, never by a call with an empty list.
C13_EmptyReleaseStoresNothing == [](C13_Inv) /\ [][C3_Step]_vars

\* C13 as stated: a call with an empty list returns the empty-release error
\* (failures of the database aside).
C13_Original ==
    \A t \in Tx :
        (Finished(t) /\ req[t].TaskRunIDs = <<>> /\ res[t].err # "error") =>
            res[t].err = ErrNoTaskRunIDs

\* Call 1 asked for v1 with no task runs and was refused for that; call 2
\* then created v1.
C13_Witness ==
    /\ pc[1] = "failed" /\ res[1].err = ErrNoTaskRunIDs
    /\ req[1].ReleaseName = "v1" /\ req[1].TaskRunIDs = <<>>
    /\ Done(2) /\ req[2].ReleaseName = "v1" /\ req[2].TaskRunIDs = <<1>>
    /\ Cardinality(ReleaseRows("v1")) = 1

\* C14: concurrent SaveTaskRun transactions, whatever their inputs and
\* outputs and in whatever orders these are listed, never wait for each
\* other's unique-key locks in a cycle.
C14_ConcurrentSavesNeverDeadlock ==
    \A t \in Tx : \A u \in Tx \ {t} : ~(WaitsFor(t, u) /\ WaitsFor(u, t))

-----------------------------------------------------------------------------
(* The total input digest, and the status of tasks that declare input strings *)

RECURSIVE InsertDigest(_, _)
InsertDigest(d, s) ==
    IF s = <<>> THEN <<d>>
    ELSE IF Compare(d, Head(s)) = -1 THEN <<d>> \o s
    ELSE <<Head(s)>> \o InsertDigest(d, Tail(s))

\* Faulty variant: the digests are taken in the order of the inputs.
SortDigests_unsorted(s) == s

\* The digests in ascending order of their bytes.
RECURSIVE SortDigests(_)
SortDigests(s) == IF s = <<>> THEN <<>> ELSE InsertDigest(Head(s), SortDigests(Tail(s)))

\* Inputs.Digest: the hash of the concatenation of the sorted digests of the
\* inputs. The hash is a value that depends on nothing but the bytes hashed.
CombinedDigest(inputs) ==
    <<"sha384", SortDigests([i \in DOMAIN inputs |-> inputs[i][2]])>>

\* Runs of a task whose only inputs are its declared input strings.
DigestRuns ==
    {[ApplicationName |-> b[1], TaskName |-> "build", VCSRevision |-> b[2], VCSIsDirty |-> FALSE,
      TotalInputDigest |-> CombinedDigest(strs), StopTimestamp |-> 1, Result |-> "success",
      Inputs |-> [Strings |-> strs, Files |-> <<>>, EnvironmentVariables |-> <<>>,
                  TaskInfo |-> <<>>],
      Outputs |-> <<>>] :
        b \in Builds, strs \in Lists(StringPool, MaxInputs) \ {<<>>}}

BeginDigestRun(t) == BeginWith(t, DigestRuns)

\* The status of the task "build" of an application that declares the input
\* strings strs, in this order.
StatusOfInputs ==
    \E app \in Apps, strs \in Lists(StringPool, MaxInputs) :
      \E s \in Status(app, "build", strs # <<>>, CombinedDigest(strs), "", CombinedDigest(strs)) :
        /\ st' = [task |-> app, digest |-> CombinedDigest(strs), lookup |-> "", alt |-> "",
                  hasInputs |-> strs # <<>>, status |-> s[1], runID |-> s[2],
                  row |-> assembleRow(app, s[1], s[2]), inputs |-> strs]
        /\ UNCHANGED dbvars
        /\ UNCHANGED sbvars

NextDigest ==
    \/ \E t \in Tx :
        \/ BeginDigestRun(t)
        \/ insertVCSIfNotExist(t)
        \/ insertAppIfNotExist(t)
        \/ insertTaskIfNotExist(t)
        \/ insertTaskRun(t)
        \/ insertInputIfNotExist(t)
        \/ insertTaskRunInputs(t)
        \/ Commit(t)
        \/ Fail(t)
    \/ StatusOfInputs

SpecDigest == Init /\ [][NextDigest]_vars

Count(x, s) == Cardinality({i \in DOMAIN s : s[i] = x})

\* The same members, in any order.
Permutation(a, b) == Len(a) = Len(b) /\ \A x \in Range(a) \cup Range(b) : Count(x, a) = Count(x, b)

C15_Step ==
    st' # st =>
        /\ \A q \in Lists(StringPool, MaxInputs) :
              Permutation(q, st'.inputs) => CombinedDigest(q) = st'.digest
        /\ (\E t \in Tx : /\ Done(t) /\ req[t].ApplicationName = st'.task
                          /\ Permutation(req[t].Inputs.Strings, st'.inputs)) =>
              st'.status = "RUN_EXISTS"

\* C15: the total input digest of a list of inputs is the total input digest
\* of each of its permutations, so the status of a task is RUN_EXISTS whenever
\* a run of the same task with the same declared input strings, in whatever
\* order, is stored.
C15_DigestIgnoresOrder == [][C15_Step]_vars

\* app1.build declaring ["y", "x"] was found RUN_EXISTS; the only run stored
\* is one of app1.build declaring ["x", "y"].
C15_Witness ==
    /\ st # NoStatus /\ st.task = "app1" /\ st.status = "RUN_EXISTS"
    /\ st.inputs = <<<<"y", "dy">>, <<"x", "dx">>>>
    /\ Done(1) /\ req[1].ApplicationName = "app1"
    /\ req[1].Inputs.Strings = <<<<"x", "dx">>, <<"y", "dy">>>>
    /\ st.runID = res[1].id
    /\ pc[2] = "idle"

C16_Step ==
    st' # st =>
        /\ UNCHANGED dbvars
        /\ Status(st'.task, "build", st'.hasInputs, st'.digest, st'.lookup,
                  IF st'.lookup = "" THEN st'.digest ELSE st'.alt)
              = {<<st'.status, st'.runID>>}

EarlyErrors == {"ErrTaskRunSkipped", "ErrUntrackedGitFilesExist", "git failed", "task info failed"}

\* C17: while a RunSandboxed call is between createTaskInfoEnv and its return
\* the temp files it created exist and the delete function has not been
\* called; when it has returned, by whichever path after createTaskInfoEnv
\* (encoding failure, child not started, child ended with any status), the
\* delete function has been called exactly once and no temp file exists; a
\* call that returned before (skipped, untracked files, failed query, failed
\* createTaskInfoEnv) has created no temp file and has not called it.
C17_TempFilesDeletedOnce ==
    /\ run.pc \in {"spawn", "wait"} => run.deletes = 0 /\ tmp = run.files
    /\ run.pc \notin {"spawn", "wait"} => tmp = {}
    /\ run.pc = "returned" =>
          IF run.ret.err \in EarlyErrors
          THEN run.deletes = 0 /\ run.files = {}
          ELSE run.deletes = 1
    /\ run.pc \in {"idle", "env"} => run.deletes = 0 /\ run.files = {}

\* The second call created a temp file, its child ended with status 1, and
\* the file is gone.
C17_Witness ==
    /\ run.pc = "returned" /\ run.n = 2 /\ run.files = {2}
    /\ run.ret.err = "nil" /\ run.ret.result = 1
    /\ run.deletes = 1 /\ tmp = {}

\* The call created a temp file and returned because the record could not be
\* encoded; no child was started.
C17_WitnessEncoding ==
    /\ run.pc = "returned" /\ run.files = {run.n}
    /\ run.ret.err = "encoding CmdSandboxed failed"
    /\ run.deletes = 1 /\ tmp = {}

\* The number of rules the process asked the kernel to add.
AddRuleCalls(p) ==
    Cardinality({k \in DOMAIN proc[p].calls : proc[p].calls[k][1] = "landlock_add_rule"})

C18_Inv ==
    \A p \in Procs :
        /\ proc[p].rs.rules =
              {[path |-> Resolve(proc[p].cmd.AllowedFSAccessPaths[j]),
                rights |-> IF IsDir(proc[p].cmd.AllowedFSAccessPaths[j])
                           THEN {"READ_FILE", "READ_DIR"} ELSE {"READ_FILE"}] :
                  j \in 1..AddRuleCalls(p)}
        /\ \A rule \in proc[p].rs.rules :
              /\ rule.rights \subseteq proc[p].rs.handled
              /\ rule.rights \subseteq {"READ_FILE", "READ_DIR"}
              /\ (\E e \in PathTable : e[2] = rule.path /\ ~e[3]) =>
                    rule.rights \cap DirOnlyRights = {}

C18_Step ==
    \A p \in Procs :
        (proc[p].pc = "allow" /\ proc'[p].pc = "returned") =>
            /\ proc'[p].rs = proc[p].rs
            /\ proc'[p].err.step = "adding landlock rule failed"
            /\ proc'[p].err.cause \notin {"nil", ""}

\* C18: the rules of a ruleset are exactly one rule per path Allow was called
\* for with success, with the rights READ_FILE and READ_DIR for a directory
\* and READ_FILE alone for a file: always within the handled rights of the
\* ruleset and without a directory right on a file; a call of Allow that
\* fails adds no rule and returns its error.
C18_AllowGrantsReadByKind == [](C18_Inv) /\ [][C18_Step]_vars

\* The shell process allowed an input file, then directories, and a later
\* Allow failed: the file has READ_FILE alone, the directory both rights.
C18_Witness ==
    /\ proc[Shell].pc = "returned"
    /\ proc[Shell].err.step = "adding landlock rule failed"
    /\ [path |-> <<"repo", "lib", "util.c">>, rights |-> {"READ_FILE"}] \in proc[Shell].rs.rules
    /\ [path |-> <<"usr", "bin">>, rights |-> {"READ_FILE", "READ_DIR"}] \in proc[Shell].rs.rules
    /\ Cardinality(proc[Shell].rs.rules) = 2

\* C19: a RunSandboxed call made while skipAfterError is set and skipping is
\* enabled has returned ErrTaskRunSkipped without calling GitUntrackedFilesFn,
\* creating a temp file or starting a child; a call made while one of the two
\* is false never returns ErrTaskRunSkipped.
C19_SkippedRunDoesNothing ==
    run.n >= 1 =>
        IF run.skipAfterError /\ run.skipRuns
        THEN /\ run.pc = "returned"
             /\ run.ret = [result |-> -1, err |-> "ErrTaskRunSkipped", untracked |-> <<>>]
             /\ ~run.queried.called
             /\ run.files = {} /\ run.env = <<>> /\ run.deletes = 0 /\ tmp = {}
             /\ ~Spawned(run.n)
        ELSE run.ret.err # "ErrTaskRunSkipped"

\* The child of the first call ended with status 1; the second call was made
\* with skipping enabled and was skipped although GitUntrackedFilesFn is set.
C19_Witness ==
    /\ run.n = 2 /\ run.skipAfterError /\ run.skipRuns /\ run.fnSet
    /\ run.pc = "returned" /\ run.ret.err = "ErrTaskRunSkipped"
    /\ proc[1].pc = "exited" /\ proc[1].code = 1
    /\ proc[2].pc = "none"

\* A call with skipAfterError set but skipping not enabled ran its child.
C19_WitnessNotSkipped ==
    /\ run.n = 1 /\ run.skipAfterError /\ ~run.skipRuns
    /\ run.pc = "returned" /\ run.ret.err = "nil" /\ run.ret.result = 0

-----------------------------------------------------------------------------
(* landlock.Version *)

\* The kernel has Landlock enabled, has it built in but disabled at boot, or
\* has no Landlock.
LandlockKernels == {"enabled", "disabled", "unsupported"}

\* unix.SYS_LANDLOCK_CREATE_RULESET, the number of the system call, and
\* unix.LANDLOCK_CREATE_RULESET_VERSION, a flag for its third argument.
SYS_LANDLOCK_CREATE_RULESET == 444
LANDLOCK_CREATE_RULESET_VERSION == 1

\* unix.Syscall(trap, a1, a2, a3): the results (r1, errno) the kernel can
\* give. landlock_create_ruleset(NULL, 0, LANDLOCK_CREATE_RULESET_VERSION)
\* returns the ABI version, here 4. System call number 1 is not a Landlock call:
\* write(0, NULL, 0) on amd64, io_destroy(0) on arm64; what it returns does not
\* depend on Landlock.
Syscall(trap, a1, a2, a3, kernel) ==
    IF trap = SYS_LANDLOCK_CREATE_RULESET
    THEN CASE kernel = "unsupported" -> {[r1 |-> -1, errno |-> "ENOSYS"]}
           [] kernel = "disabled" -> {[r1 |-> -1, errno |-> "EOPNOTSUPP"]}
           [] OTHER -> IF a3 = LANDLOCK_CREATE_RULESET_VERSION
                       THEN {[r1 |-> 4, errno |-> "0"]}
                       ELSE {[r1 |-> -1, errno |-> "EINVAL"]}
    ELSE {[r1 |-> 0, errno |-> "0"], [r1 |-> -1, errno |-> "EBADF"],
          [r1 |-> -1, errno |-> "EINVAL"]}

\* Version: unix.Syscall(unix.LANDLOCK_CREATE_RULESET_VERSION, uintptr(0), 0, 0)
Version ==
    /\ \E kernel \in LandlockKernels :
         \E o \in Syscall(LANDLOCK_CREATE_RULESET_VERSION, 0, 0, 0, kernel) :
            ll' = [called |-> TRUE, kernel |-> kernel,
                   version |-> IF o.errno # "0" THEN -1 ELSE o.r1,
                   err |-> IF o.errno # "0" THEN errnoToError(o.errno) ELSE "nil"]
    /\ UNCHANGED <<st, proc, run, tmp, acc>>
    /\ UNCHANGED dbvars

NextLandlock ==
    \/ Version
    \/ NextExec

SpecLandlock == Init /\ [][NextLandlock]_vars

LandlockSteps ==
    {"creating landlock ruleset failed", "adding landlock rule failed",
     "restricting landlock file access failed"}

\* C20: a failure of a Landlock system call is returned as ErrLandlockDisabled
\* for EOPNOTSUPP and ErrLandLockNotSupported for ENOSYS, any other errno as
\* it is, and no error for errno 0, by NewFSRuleset, Allow and Restrict and by
\* Version: on a kernel with Landlock disabled at boot Version returns
\* ErrLandlockDisabled, on a kernel without Landlock ErrLandLockNotSupported.
C20_LandlockFailuresClassified ==
    /\ \A p \in Procs :
          proc[p].err.step \in LandlockSteps =>
              proc[p].err.cause \notin {"EOPNOTSUPP", "ENOSYS", "0", "nil"}
    /\ ll.called =>
          /\ ll.kernel = "disabled" => ll.err = "ErrLandlockDisabled"
          /\ ll.kernel = "unsupported" => ll.err = "ErrLandLockNotSupported"

-----------------------------------------------------------------------------
(* The order of the writes of one SaveTaskRun transaction *)

HasRow(V, tbl, id) == \E row \in V : row.tbl = tbl /\ row.id = id

\* Every reference of a row of V names a row of V.
References(V) ==
    \A row \in V :
        /\ row.tbl = "task" => HasRow(V, "application", row.r[1])
        /\ row.tbl = "task_run" =>
              HasRow(V, "vcs", row.r[1]) /\ HasRow(V, "task", row.r[2])
        /\ \A j \in 1..4 :
              row.tbl = JunctionTable(j) =>
                  HasRow(V, "task_run", row.r[1]) /\ HasRow(V, InputTable(j), row.r[2])
        /\ row.tbl = "task_run_output" =>
              /\ HasRow(V, "task_run", row.r[1])
              /\ HasRow(V, "output", row.r[2])
              /\ HasRow(V, "upload", row.r[3])

\* C21: at every point of every SaveTaskRun transaction, each row the
\* transaction sees (the committed rows and its own) that references another
\* row references one that exists already: a task its application, a
\* task_run its vcs and task, a junction row its task_run and its input, a
\* task_run_output row its task_run, output and upload; and the ids the
\* transaction holds are ids of rows written before.
C21_NoDanglingReference ==
    \A t \in Tx :
        /\ References(db \cup pend[t])
        /\ loc[t].appID # 0 => HasRow(db \cup pend[t], "application", loc[t].appID)
        /\ loc[t].taskID # 0 => HasRow(db \cup pend[t], "task", loc[t].taskID)
        /\ loc[t].vcsID # 0 => HasRow(db \cup pend[t], "vcs", loc[t].vcsID)
        /\ loc[t].runID # 0 => HasRow(db \cup pend[t], "task_run", loc[t].runID)
        /\ pc[t] \in {"task", "run"} => loc[t].vcsID # 0 /\ loc[t].appID # 0
        /\ pc[t] = "run" => loc[t].taskID # 0
        /\ pc[t] \in {"in", "output", "uploads", "tro"} => loc[t].runID # 0

\* Call 1 is about to write its task_run_output rows: its junction row, its
\* output and its upload are written, none of them committed.
C21_Witness ==
    /\ pc[1] = "tro" /\ db = {}
    /\ \E row \in pend[1] : row.tbl = "task_run_file_input" /\ row.r[1] = loc[1].runID
    /\ \E row \in pend[1] : row.tbl = "upload"
    /\ \E row \in pend[1] : row.tbl = "output"

-----------------------------------------------------------------------------
(* SaveTaskRun and CreateRelease calls on one registry *)

IsRelease(t) == "ReleaseName" \in DOMAIN req[t]

NextRegistry ==
    \E t \in Tx :
        \/ BeginRun(t)
        \/ BeginRelease(t)
        \/ ~IsRelease(t) /\ insertVCSIfNotExist(t)
        \/ ~IsRelease(t) /\ insertAppIfNotExist(t)
        \/ ~IsRelease(t) /\ insertTaskIfNotExist(t)
        \/ ~IsRelease(t) /\ insertTaskRun(t)
        \/ ~IsRelease(t) /\ insertInputIfNotExist(t)
        \/ ~IsRelease(t) /\ insertTaskRunInputs(t)
        \/ ~IsRelease(t) /\ insertOutputIfNotExist(t)
        \/ ~IsRelease(t) /\ insertUploads(t)
        \/ ~IsRelease(t) /\ insertUploadsEmpty(t)
        \/ ~IsRelease(t) /\ insertTaskRunOutputs(t)
        \/ ~IsRelease(t) /\ Commit(t)
        \/ ~IsRelease(t) /\ Fail(t)
        \/ ~IsRelease(t) /\ DeadlockAbort(t)
        \/ IsRelease(t) /\ insertRelease(t)
        \/ IsRelease(t) /\ insertReleaseTaskRun(t)
        \/ IsRelease(t) /\ CommitRelease(t)
        \/ IsRelease(t) /\ FailRelease(t)

SpecRegistry == Init /\ [][NextRegistry]_vars

TaskRunRows == {row \in db : row.tbl = "task_run"}

SavedCalls == {t \in Tx : Done(t) /\ ~IsRelease(t)}

C22_Inv ==
    /\ \A t \in SavedCalls :
          /\ \E row \in TaskRunRows :
                /\ row.id = res[t].id /\ Owner(row.id) = t
                /\ row.k = <<req[t].TotalInputDigest, req[t].Result>>
                /\ row.r[3] = req[t].StopTimestamp
          /\ Cardinality({row \in TaskRunRows : Owner(row.id) = t}) = 1
          /\ \A u \in SavedCalls \ {t} : res[u].id # res[t].id
    /\ Cardinality(TaskRunRows) = Cardinality(SavedCalls)
    /\ \A row, other \in TaskRunRows : row.id = other.id => row = other

C22_Step ==
    \A row \in db :
        row.tbl \in {"task_run", "task_run_output"} \cup {JunctionTable(j) : j \in 1..4} =>
            row \in db'

\* C22: each SaveTaskRun call that returned without error has stored exactly
\* one task_run row, with the columns it was given and the id it returned;
\* the ids returned by different calls differ, also for runs with the same
\* content, so there is one task_run row per successful call; and no step of
\* a SaveTaskRun or CreateRelease call changes or removes a committed
\* task_run, junction or task_run_output row.
C22_RunsStoredOnceNeverChanged == [](C22_Inv) /\ [][C22_Step]_vars

\* Both calls stored a run with the same content, inputs and outputs
\* included: two rows, two ids.
C22_Witness ==
    /\ Done(1) /\ Done(2) /\ ~IsRelease(1) /\ ~IsRelease(2)
    /\ req[1] = req[2] /\ req[1].Outputs # <<>>
    /\ res[1].id # res[2].id
    /\ Cardinality(TaskRunRows) = 2

\* A release of the run stored by call 1 was created by call 2; the run's
\* rows are as they were.
C22_WitnessRelease ==
    /\ Done(1) /\ ~IsRelease(1) /\ Done(2) /\ IsRelease(2)
    /\ req[2].TaskRunIDs = <<1>> /\ res[1].id = 1
    /\ Cardinality(TaskRunRows) = 1

-----------------------------------------------------------------------------
(* The junction rows of a committed run *)

RunJunction(j, runID) == {row \in db : row.tbl = JunctionTable(j) /\ row.r[1] = runID}

\* The committed rows of kind j that hold the natural key of input in (the
\* columns of the table's unique constraint: the digest for a string, the
\* primary attribute and the digest for the other kinds).
HoldingRows(j, in) ==
    {row \in db : row.tbl = InputTable(j) /\ RowKey(row) = UKeyOf(InputTable(j), in, <<>>)}

\* C23: for a committed SaveTaskRun call and each input kind, the junction
\* table holds for the run as many rows as the call's list of that kind has
\* elements, each element has exactly one interned row holding its natural
\* key and digest, the input ids of the run's junction rows are exactly
\* the ids of these rows, one junction row for each, whether the call
\* inserted the interned row or found it; there is no other junction row of
\* the run.
C23_JunctionMatchesInputs ==
    \A t \in Tx : Done(t) =>
        \A j \in 1..4 :
            /\ Cardinality(RunJunction(j, res[t].id)) = Len(InputList(req[t], j))
            /\ \A in \in Range(InputList(req[t], j)) :
                  /\ Cardinality(HoldingRows(j, in)) = 1
                  /\ \A held_row \in HoldingRows(j, in) :
                        Cardinality({jr \in RunJunction(j, res[t].id) :
                                        jr.r[2] = held_row.id}) = 1
            /\ \A jr \in RunJunction(j, res[t].id) :
                  \E in \in Range(InputList(req[t], j)) :
                      \E held_row \in HoldingRows(j, in) : jr.r[2] = held_row.id

\* Call 1 stored two files; call 2, given one of them and another file's
\* digest, found the row of the first already there: three junction rows,
\* two of them with the same input id.
C23_Witness ==
    /\ Done(1) /\ Done(2)
    /\ req[1].Inputs.Files = <<<<"b.c", "d1">>, <<"a.c", "d2">>>>
    /\ req[2].Inputs.Files = <<<<"a.c", "d2">>, <<"a.c", "d1">>>>
    /\ \E row \in HoldingRows(2, <<"a.c", "d2">>) :
          /\ Owner(row.id) = 1
          /\ \E jr \in RunJunction(2, res[2].id) : jr.r[2] = row.id
    /\ Cardinality({row \in db : row.tbl = "input_file"}) = 3

-----------------------------------------------------------------------------
(* The image the sandboxed child turns into *)

\* C24 as stated: once the child of a RunSandboxed call has replaced its
\* image, the program is task.Command[0], the argument vector of the new
\* image is task.Command (the program name first, then the arguments), the
\* working directory is task.Directory and the environment is the caller's
\* followed by the task-info variables.
C24_ChildRunsCommand ==
    \A p \in Children :
        (proc[p].pc = "running" /\ run.n = p) =>
            /\ proc[p].image = run.task.Command[1]
            /\ proc[p].argv = run.task.Command
            /\ proc[p].cwd = run.task.Directory
            /\ proc[p].envp = Environ \o run.env

-----------------------------------------------------------------------------
(* SaveTaskRun calls made one after the other on a database that does not fail *)

\* A call that starts when no other call is in progress.
BeginAlone(t) ==
    /\ \A u \in Tx \ {t} : pc[u] \in {"idle", "done", "failed"}
    /\ BeginWith(t, Runs \cup InputRuns)

NextOutputs ==
    \E t \in Tx :
        \/ BeginAlone(t)
        \/ insertVCSIfNotExist(t)
        \/ insertAppIfNotExist(t)
        \/ insertTaskIfNotExist(t)
        \/ insertTaskRun(t)
        \/ insertInputIfNotExist(t)
        \/ insertTaskRunInputs(t)
        \/ insertOutputIfNotExist(t)
        \/ insertUploads(t)
        \/ insertUploadsEmpty(t)
        \/ insertTaskRunOutputs(t)
        \/ Commit(t)

SpecOutputs == Init /\ [][NextOutputs]_vars

\* C25 as stated: with no failure of the database and no other call in
\* progress, a SaveTaskRun call given a non-empty output list never fails,
\* whether or not each output has uploads, and once it has committed every
\* output of the list has its row and the run has one upload row and one
\* task_run_output row for each upload.
C25_OutputsWithoutUploadsStored ==
    \A t \in Tx :
        (pc[t] # "idle" /\ req[t].Outputs # <<>>) =>
            /\ pc[t] # "failed"
            /\ Done(t) =>
                  /\ \A o \in Range(req[t].Outputs) :
                        \E row \in db : /\ row.tbl = "output"
                                        /\ row.k = <<o.Name, o.Type, o.Digest>>
                  /\ Cardinality({row \in db : /\ row.tbl = "task_run_output"
                                               /\ row.r[1] = res[t].id})
                        = CountUploads(req[t].Outputs)

-----------------------------------------------------------------------------
(* Concurrent SaveTaskRun calls over input strings that share digests *)

\* Input strings of which two pairs carry the same digest.
HashedStrings == {<<"CC", "d1">>, <<"GOOS", "d2">>, <<"x", "d2">>, <<"y", "d1">>}

\* Runs with input strings only, the digests within one list all different.
StringRuns ==
    {[ApplicationName |-> b[1], TaskName |-> "build", VCSRevision |-> b[2], VCSIsDirty |-> FALSE,
      TotalInputDigest |-> "t1", StopTimestamp |-> 1, Result |-> "success",
      Inputs |-> [Strings |-> l, Files |-> <<>>, EnvironmentVariables |-> <<>>,
                  TaskInfo |-> <<>>],
      Outputs |-> <<>>] :
        b \in Builds,
        l \in {s \in Lists(HashedStrings, MaxInputs) :
                 \A i, j \in DOMAIN s : i # j => s[i][2] # s[j][2]}}

BeginStrings(t) == BeginWith(t, StringRuns)

NextStrings ==
    \E t \in Tx :
        \/ BeginStrings(t)
        \/ insertVCSIfNotExist(t)
        \/ insertAppIfNotExist(t)
        \/ insertTaskIfNotExist(t)
        \/ insertTaskRun(t)
        \/ insertInputIfNotExist(t)
        \/ insertTaskRunInputs(t)
        \/ Commit(t)
        \/ DeadlockAbort(t)

SpecStrings == Init /\ [][NextStrings]_vars

\* C26 as stated: whatever lists of (string, digest) pairs two concurrent
\* SaveTaskRun calls are given, lists in which different strings carry the
\* same digest included, the transactions lock the rows of input_string in
\* the same relative order: none of them ever waits in a cycle for a key of
\* input_string, and none is aborted.
C26_StringLocksNeverCycle ==
    \A t \in Tx :
        /\ ~(InCycle(t) /\ WantKey(t).tbl = "input_string")
        /\ pc[t] # "failed"

-----------------------------------------------------------------------------
(* The command record on its way from the parent to the child *)

MaxArgs == 2

SeqsUpTo(S, n) == UNION {[1..m -> S] : m \in 0..n}

\* CmdSandboxed values: every field empty or not, lists with empty strings
\* and with repeated elements.
CmdValues ==
    [Name : {"", "/usr/bin/make"},
     Args : SeqsUpTo({"", "all"}, MaxArgs),
     Dir : {"", "/repo/app"},
     Env : SeqsUpTo({"PATH=/usr/bin", "DEBUG="}, MaxArgs),
     AllowedFSAccessPaths : SeqsUpTo({"/repo/app", "/repo/lib/util.c"}, MaxArgs)]

\* The parent holds a record.
InitCodec ==
    /\ InitDB /\ InitStatus
    /\ \E c \in CmdValues :
          proc = [p \in Procs |->
                    IF p = Runner
                    THEN [NoProc EXCEPT !.pc = "main", !.cwd = "/repo", !.image = "baur",
                                        !.argv = <<"baur", "run">>, !.envp = Environ,
                                        !.cmd = c]
                    ELSE NoProc]
    /\ run = NoCall
    /\ tmp = {}
    /\ acc = NoAcc
    /\ ll = NoVersion

\* encodeCmdSb(&sbCmd), handed to the child as its standard input.
EncodeCmd(p) ==
    /\ proc[p].pc = "none"
    /\ Step(p, [NoProc EXCEPT !.pc = "decode", !.image = "baur",
                              !.stdin = encodeCmdSb(proc[Runner].cmd)])

NextCodec ==
    \E p \in Children :
        \/ EncodeCmd(p)
        \/ runSandboxedSubCmd(p)

SpecCodec == InitCodec /\ [][NextCodec]_vars

SameSeq(a, b) == Len(a) = Len(b) /\ \A i \in 1..Len(a) : a[i] = b[i]

-----------------------------------------------------------------------------
(* What SaveTaskRun leaves alone *)

OutputTables == {"output", "upload", "task_run_output"}

\* The tables transaction t has written to or holds a key of.
Touched(t) ==
    {row.tbl : row \in pend[t]} \cup {key.tbl : key \in held[t]}
        \cup {row.tbl : row \in {x \in WrittenBy(t) : Done(t)}}

C28_Inv ==
    \A t \in Tx :
        pc[t] # "idle" =>
            /\ \A j \in 1..4 :
                  InputList(req[t], j) = <<>> =>
                      /\ ~(pc[t] = "in" /\ loc[t].phase = j)
                      /\ Touched(t) \cap {InputTable(j), JunctionTable(j)} = {}
            /\ req[t].Outputs = <<>> =>
                  /\ pc[t] \notin {"output", "uploads", "tro"}
                  /\ Touched(t) \cap OutputTables = {}
                  /\ pc[t] # "failed"

C28_Step == \A t \in Tx : pc[t] # "idle" => req'[t] = req[t]

\* C28: from the call of SaveTaskRun to its return, with success or with an
\* error, no step changes the order or the contents of the caller's
\* Inputs.Files, Strings, EnvironmentVariables and TaskInfo (the statements
\* work on sorted copies); for an input kind whose list is empty the call
\* issues no statement against the kind's interning table and junction
\* table, for an empty output list none against output, upload and
\* task_run_output, and with no failure of the database a call without
\* outputs commits whichever of its input lists are empty.
C28_CallerDataUntouched == [](C28_Inv) /\ [][C28_Step]_vars

\* A call given two files in descending order and nothing else committed:
\* the list is as it was given, its rows went in sorted, no other table of
\* inputs or outputs was written.
C28_Witness ==
    /\ Done(1)
    /\ req[1].Inputs.Files = <<<<"b.c", "d1">>, <<"a.c", "d2">>>>
    /\ req[1].Inputs.Strings = <<>> /\ req[1].Outputs = <<>>
    /\ Cardinality(RunJunction(2, res[1].id)) = 2
    /\ {row.tbl : row \in db} =
          {"vcs", "application", "task", "task_run", "input_file", "task_run_file_input"}

-----------------------------------------------------------------------------
(* The status command over several tasks *)

\* The tasks the loader returns: app.check and app.lint.
CmdTasks ==
    {[ID |-> "app.check", AppName |-> "app", Name |-> "check", Directory |-> "/repo/app"],
     [ID |-> "app.lint", AppName |-> "app", Name |-> "lint", Directory |-> "/repo/app"]}

\* Successful runs of these tasks with the digest the tasks have now.
CmdRuns ==
    {[ApplicationName |-> "app", TaskName |-> name, VCSRevision |-> rev,
      VCSIsDirty |-> FALSE, TotalInputDigest |-> "t1", StopTimestamp |-> 1,
      Result |-> "success",
      Inputs |-> [Strings |-> <<>>, Files |-> <<>>, EnvironmentVariables |-> <<>>,
                  TaskInfo |-> <<>>],
      Outputs |-> <<>>] :
        name \in {"check", "lint"}, rev \in Revisions}

BeginCmdRun(t) == BeginWith(t, CmdRuns)

\* Values of --fields and of --status ("": not set).
FieldLists ==
    {<<"task-id", "path">>, <<"app-name", "status">>, <<"run-id", "task-id">>,
     <<"git-commit", "task-id", "run-id", "status">>}

StatusFilters == {"", "RUN_EXISTS", "PENDING"}

\* Faulty variant: the registry is opened for every invocation.
storageQueryIsNeeded_always(buildStatus, fields) == TRUE

storageQueryIsNeeded(buildStatus, fields) ==
    \/ buildStatus # ""
    \/ \E n \in DOMAIN fields : fields[n] \in {"status", "run-id", "git-commit"}

\* baur.SortTasksByID: the tasks in ascending order of their ids.
SortTasksByID(tasks) ==
    CHOOSE s \in Lists(Range(tasks), Len(tasks)) :
        /\ Len(s) = Len(tasks)
        /\ \A i, j \in DOMAIN s : i < j => Compare(s[i].ID, s[j].ID) = -1

\* A cell of a row: nil, or <<value>>.
Nil == <<>>

\* statusCmd.assembleRow, paths printed as with --abs-path; taskRun is the
\* run found (ID and VCSRevision).
assembleRowFields(fields, task, taskRun, buildStatus) ==
    [n \in DOMAIN fields |->
        CASE fields[n] = "app-name" -> <<task.AppName>>
          [] fields[n] = "task-id" -> <<task.ID>>
          [] fields[n] = "path" -> <<task.Directory>>
          [] fields[n] = "status" -> <<buildStatus>>
          [] fields[n] = "run-id" ->
                IF buildStatus = "RUN_EXISTS" THEN <<ToString(taskRun.ID)>> ELSE Nil
          [] fields[n] = "git-commit" ->
                IF buildStatus = "RUN_EXISTS" THEN <<taskRun.VCSRevision>> ELSE Nil]

\* The committed task_run row with the id joined with its vcs row, as the
\* registry returns it.
TaskRunWithID(id) ==
    LET tr == CHOOSE row \in db : row.tbl = "task_run" /\ row.id = id
        vcs == CHOOSE row \in db : row.tbl = "vcs" /\ row.id = tr.r[1]
    IN  [ID |-> id, VCSRevision |-> vcs.k[1]]

\* statusCmd.run up to the loop: the tasks of the arguments are loaded, the
\* registry is opened if it is needed, the tasks are sorted.
statusCmdBegin ==
    /\ st = NoStatus
    /\ \E args \in Lists(CmdTasks, MaxItems) \ {<<>>}, fields \in FieldLists,
          buildStatus \in StatusFilters :
          st' = [pc |-> "loop", args |-> args, fields |-> fields,
                 buildStatus |-> buildStatus,
                 opened |-> storageQueryIsNeeded(buildStatus, fields),
                 queries |-> 0, tasks |-> SortTasksByID(args), i |-> 1,
                 seen |-> <<>>, out |-> <<>>]
    /\ UNCHANGED dbvars
    /\ UNCHANGED sbvars

\* What one pass of the loop leaves: the status evaluated (the zero value
\* when the registry is not queried), and the row if it is not filtered out.
AfterTask(task, status, runID) ==
    [st EXCEPT
        !.i = @ + 1,
        !.pc = IF st.i = Len(st.tasks) THEN "done" ELSE "loop",
        !.queries = IF storageQueryIsNeeded(st.buildStatus, st.fields) THEN @ + 1 ELSE @,
        !.seen = Append(@, [task |-> task.ID, status |-> status, runID |-> runID]),
        !.out = IF st.buildStatus # "" /\ status # st.buildStatus THEN @
                ELSE Append(@, [k |-> st.i,
                                row |-> assembleRowFields(
                                           st.fields, task,
                                           IF runID = 0 THEN [ID |-> 0, VCSRevision |-> ""]
                                           ELSE TaskRunWithID(runID),
                                           status)])]

\* One pass of the loop of statusCmd.run.
statusCmdTask ==
    /\ st # NoStatus /\ st.pc = "loop"
    /\ LET task == st.tasks[st.i] IN
         IF storageQueryIsNeeded(st.buildStatus, st.fields)
         THEN \/ \E hasInputs \in BOOLEAN :
                   \E s \in Status(task.AppName, task.Name, hasInputs, "t1", "", "t1") :
                       st' = AfterTask(task, s[1], s[2])
              \/ st' = [st EXCEPT !.pc = "exited", !.queries = @ + 1]
         ELSE st' = AfterTask(task, "", 0)
    /\ UNCHANGED dbvars
    /\ UNCHANGED sbvars

NextStatusCmd ==
    \/ \E t \in Tx :
        \/ BeginCmdRun(t)
        \/ insertVCSIfNotExist(t)
        \/ insertAppIfNotExist(t)
        \/ insertTaskIfNotExist(t)
        \/ insertTaskRun(t)
        \/ Commit(t)
    \/ statusCmdBegin
    \/ statusCmdTask

SpecStatusCmd == Init /\ [][NextStatusCmd]_vars

\* The cell of row o must be: the value for a task found RUN_EXISTS, else nil.
RunCell(o, value) == IF st.seen[o.k].status = "RUN_EXISTS" THEN <<value>> ELSE Nil

\* C29: the status command passes through the tasks in ascending order of
\* their ids and writes its rows in that order; in each row the run-id cell
\* is the id and the git-commit cell the revision of the run found for the
\* task if its status is RUN_EXISTS, and nil if it is not; with a status
\* filter set the rows written are those of the tasks whose status is the
\* filter's, without a filter those of all tasks; and the registry is opened
\* and queried only if a filter is set or one of the fields status, run-id
\* and git-commit is asked for.
C29_StatusRowsInOrder ==
    st # NoStatus =>
        /\ \A k, l \in DOMAIN st.seen :
              k < l => Compare(st.seen[k].task, st.seen[l].task) = -1
        /\ \A a, b \in DOMAIN st.out : a < b => st.out[a].k < st.out[b].k
        /\ \A a \in DOMAIN st.out :
              LET o == st.out[a] IN
              \A n \in DOMAIN st.fields :
                  /\ st.fields[n] = "run-id" =>
                        o.row[n] = RunCell(o, ToString(st.seen[o.k].runID))
                  /\ st.fields[n] = "git-commit" =>
                        /\ o.row[n] # Nil <=> st.seen[o.k].status = "RUN_EXISTS"
                        /\ o.row[n] # Nil =>
                              \E t \in Tx : /\ Done(t) /\ res[t].id = st.seen[o.k].runID
                                            /\ o.row[n] = <<req[t].VCSRevision>>
                  /\ st.fields[n] = "task-id" => o.row[n] = <<st.seen[o.k].task>>
        /\ \A k \in DOMAIN st.seen :
              (\E a \in DOMAIN st.out : st.out[a].k = k)
                  <=> (st.buildStatus = "" \/ st.seen[k].status = st.buildStatus)
        /\ (st.opened \/ st.queries > 0) =>
              \/ st.buildStatus # ""
              \/ \E n \in DOMAIN st.fields : st.fields[n] \in {"status", "run-id", "git-commit"}

\* status app.lint app.check without a filter: the row of app.check, which
\* has no run, comes first with nil cells, the row of app.lint second with
\* the id and the revision of the run stored by call 1.
C29_Witness ==
    /\ st # NoStatus /\ st.pc = "done"
    /\ st.args[1].ID = "app.lint" /\ Len(st.args) = 2
    /\ st.fields = <<"git-commit", "task-id", "run-id", "status">>
    /\ st.buildStatus = ""
    /\ Done(1) /\ req[1].TaskName = "lint" /\ req[1].VCSRevision = "r2"
    /\ Len(st.out) = 2
    /\ st.out[1].row = <<Nil, <<"app.check">>, Nil, <<"PENDING">>>>
    /\ st.out[2].row = <<<<"r2">>, <<"app.lint">>, <<ToString(res[1].id)>>, <<"RUN_EXISTS">>>>

\* status --status RUN_EXISTS with fields task-id and path: only the task
\* with a run is listed.
C29_WitnessFilter ==
    /\ st # NoStatus /\ st.pc = "done"
    /\ st.buildStatus = "RUN_EXISTS" /\ st.fields = <<"task-id", "path">>
    /\ Len(st.seen) = 2 /\ st.queries = 2
    /\ Len(st.out) = 1 /\ st.out[1].row = <<<<"app.lint">>, <<"/repo/app">>>>

====
